---- MODULE Spec2Model ----
(***************************************************************************)
(* Model of the matching-and-reconciliation engine of src/matching.py:     *)
(* value normalisation, the geo precheck, lane scoring, the validity-date  *)
(* filter, discrepancy computation and the pattern summariser of           *)
(* match_shipments_with_rate_card, one action per stage of the per-row     *)
(* loop body.                                                              *)
(*                                                                         *)
(* Cells are strings (the str() form pandas would give), None is the       *)
(* missing cell (None / NaN).  Strings are handled character by character  *)
(* with Len, SubSeq and \o.                                                *)
(***************************************************************************)
EXTENDS Integers, Sequences, FiniteSets, TLC

\* The missing cell (None / NaN): pd.isna(value) is value = None.
None == "<None>"

\* Outcome of normalize_value when int(float('inf')) raises OverflowError.
OverflowError == "<OverflowError>"

(***************************************************************************)
(* String helpers (Python str methods used by the source).                 *)
(***************************************************************************)
UpperAlphabet == "ABCDEFGHIJKLMNOPQRSTUVWXYZ"
LowerAlphabet == "abcdefghijklmnopqrstuvwxyz"
Digits == "0123456789"

Char(s, i) == SubSeq(s, i, i)

\* c in alphabet (c a one-character string)
CharIn(c, alphabet) == \E i \in 1..Len(alphabet) : Char(alphabet, i) = c

IndexOf(c, alphabet) == CHOOSE i \in 1..Len(alphabet) : Char(alphabet, i) = c

RECURSIVE CharMap(_, _, _)
\* the function taking the i-th character of one alphabet to the i-th of another
CharMap(from, to, i) ==
    IF i > Len(from) THEN << >> ELSE (Char(from, i) :> Char(to, i)) @@ CharMap(from, to, i + 1)

LowerOf == CharMap(UpperAlphabet, LowerAlphabet, 1)

UpperOf == CharMap(LowerAlphabet, UpperAlphabet, 1)

LowerChar(c) == IF c \in DOMAIN LowerOf THEN LowerOf[c] ELSE c

UpperChar(c) == IF c \in DOMAIN UpperOf THEN UpperOf[c] ELSE c

RECURSIVE Lower(_)
\* str.lower()
Lower(s) ==
    IF s = "" THEN ""
    ELSE IF Len(s) = 1 THEN LowerChar(s)
    ELSE Lower(SubSeq(s, 1, Len(s) \div 2)) \o Lower(SubSeq(s, (Len(s) \div 2) + 1, Len(s)))

RECURSIVE Upper(_)
\* str.upper()
Upper(s) ==
    IF s = "" THEN ""
    ELSE IF Len(s) = 1 THEN UpperChar(s)
    ELSE Upper(SubSeq(s, 1, Len(s) \div 2)) \o Upper(SubSeq(s, (Len(s) \div 2) + 1, Len(s)))

RECURSIVE LStrip(_, _)
\* str.lstrip(ch)
LStrip(s, ch) == IF s # "" /\ Char(s, 1) = ch THEN LStrip(Tail(s), ch) ELSE s

RECURSIVE RStrip(_, _)
\* str.rstrip(ch)
RStrip(s, ch) == IF s # "" /\ Char(s, Len(s)) = ch THEN RStrip(SubSeq(s, 1, Len(s) - 1), ch) ELSE s

\* str.strip(): the only whitespace of the modelled cells is the blank
Strip(s) == RStrip(LStrip(s, " "), " ")

RECURSIVE RemoveChar(_, _)
\* str.replace(ch, "")
RemoveChar(s, ch) ==
    IF s = "" THEN ""
    ELSE IF Len(s) = 1 THEN (IF s = ch THEN "" ELSE s)
    ELSE RemoveChar(SubSeq(s, 1, Len(s) \div 2), ch) \o RemoveChar(SubSeq(s, (Len(s) \div 2) + 1, Len(s)), ch)

\* str.startswith(p)
StartsWith(s, p) == Len(p) <= Len(s) /\ SubSeq(s, 1, Len(p)) = p

\* sub in s
Contains(s, sub) == \E i \in 1..(Len(s) - Len(sub) + 1) : SubSeq(s, i, i + Len(sub) - 1) = sub

\* str.isdigit(): non-empty and all characters are digits
IsDigit(s) == s # "" /\ \A i \in 1..Len(s) : CharIn(Char(s, i), Digits)

RECURSIVE Zeros(_)
Zeros(n) == IF n <= 0 THEN "" ELSE "0" \o Zeros(n - 1)

RECURSIVE StrToNat(_)
\* int() of a string of digits
StrToNat(s) == IF s = "" THEN 0 ELSE 10 * StrToNat(SubSeq(s, 1, Len(s) - 1)) + (IndexOf(Char(s, Len(s)), Digits) - 1)

RECURSIVE NatToStr(_)
\* str() of a natural number
NatToStr(n) == IF n < 10 THEN Char(Digits, n + 1) ELSE NatToStr(n \div 10) \o Char(Digits, (n % 10) + 1)

(***************************************************************************)
(* float(str) of Python, on the decimal grammar                            *)
(*   [sign] ( "inf" | "infinity" | "nan" | number ),                       *)
(*   number   ::= digitpart ["." [digitpart]] [exponent] | "." digitpart   *)
(*                [exponent]                                               *)
(*   digitpart::= digit (["_"] digit)*     exponent ::= ("e"|"E") [sign]   *)
(*                digitpart                                                *)
(* A number is kept exactly as sign, digit string and power of ten.        *)
(***************************************************************************)
IsDigitPart(s) ==
    /\ s # ""
    /\ CharIn(Char(s, 1), Digits)
    /\ CharIn(Char(s, Len(s)), Digits)
    /\ \A i \in 1..Len(s) : CharIn(Char(s, i), Digits) \/ Char(s, i) = "_"
    /\ \A i \in 1..(Len(s) - 1) : ~(Char(s, i) = "_" /\ Char(s, i + 1) = "_")

\* position of the first occurrence of one of the characters of set, 0 if none
FirstIndexOf(s, set) ==
    IF \E i \in 1..Len(s) : CharIn(Char(s, i), set)
    THEN CHOOSE i \in 1..Len(s) : CharIn(Char(s, i), set) /\ \A j \in 1..(i - 1) : ~CharIn(Char(s, j), set)
    ELSE 0

NotANumber == [kind |-> "bad", neg |-> FALSE, digs |-> "", exp |-> 0]

\* a leading sign of a number or of an exponent
Negative(s) == s # "" /\ Char(s, 1) = "-"

Unsigned(s) == IF s # "" /\ CharIn(Char(s, 1), "+-") THEN Tail(s) ELSE s

\* the number with integer part ipart, fraction fpart and exponent expo
FloatOfParts(neg, ipart, fpart, has_exp, expo) ==
    IF /\ ipart = "" \/ IsDigitPart(ipart)
       /\ fpart = "" \/ IsDigitPart(fpart)
       /\ ~(ipart = "" /\ fpart = "")
       /\ ~has_exp \/ IsDigitPart(Unsigned(expo))
    THEN [kind |-> "num", neg |-> neg, digs |-> RemoveChar(ipart, "_") \o RemoveChar(fpart, "_"),
          exp  |-> (IF ~has_exp THEN 0
                    ELSE IF Negative(expo) THEN 0 - StrToNat(RemoveChar(Unsigned(expo), "_"))
                    ELSE StrToNat(RemoveChar(Unsigned(expo), "_")))
                   - Len(RemoveChar(fpart, "_"))]
    ELSE NotANumber

\* the number with mantissa mant, split at its decimal point dpos (0: none)
FloatOfMantissa(neg, mant, dpos, has_exp, expo) ==
    FloatOfParts(neg, IF dpos = 0 THEN mant ELSE SubSeq(mant, 1, dpos - 1),
                 IF dpos = 0 THEN "" ELSE SubSeq(mant, dpos + 1, Len(mant)), has_exp, expo)

\* the unsigned text body, split at its exponent mark epos (0: none)
FloatOfBody(neg, body, epos) ==
    IF Lower(body) \in {"inf", "infinity"} THEN [kind |-> "inf", neg |-> neg, digs |-> "", exp |-> 0]
    ELSE IF Lower(body) = "nan" THEN [kind |-> "nan", neg |-> neg, digs |-> "", exp |-> 0]
    ELSE FloatOfMantissa(neg, IF epos = 0 THEN body ELSE SubSeq(body, 1, epos - 1),
                         FirstIndexOf(IF epos = 0 THEN body ELSE SubSeq(body, 1, epos - 1), "."),
                         epos # 0, IF epos = 0 THEN "" ELSE SubSeq(body, epos + 1, Len(body)))

\* float(str_value) of a stripped string
float_parse(str_value) ==
    FloatOfBody(Negative(str_value), Unsigned(str_value), FirstIndexOf(Unsigned(str_value), "eE"))

\* Largest finite double is 1.7976931348623157e308; a decimal of that
\* magnitude whose digits reach 17976931348623158 rounds to inf.
MaxDoubleDigits == "17976931348623158"

RECURSIVE DigitsGE(_, _)
\* a >= b for digit strings read as decimal fractions 0.a and 0.b
DigitsGE(a, b) ==
    IF b = "" THEN TRUE
    ELSE IF a = "" THEN LStrip(b, "0") = ""
    ELSE LET x == IndexOf(Char(a, 1), Digits)
             y == IndexOf(Char(b, 1), Digits)
         IN  IF x > y THEN TRUE ELSE IF x < y THEN FALSE ELSE DigitsGE(Tail(a), Tail(b))

\* Outcomes the model does not compute digit by digit: a double that is
\* not the decimal it was read from (more than 15 significant digits, or
\* subnormal).
Inexact == "<inexact>"

(***************************************************************************)
(* The numeric coercion of normalize_value, lines 40-49: str(int(num)) for *)
(* an integral float, str(num) (the repr) otherwise; the string unchanged  *)
(* when float() or int() raises ValueError; OverflowError is not caught.   *)
(***************************************************************************)
\* repr of the finite non-zero double sign 0.d2 * 10^(Len(d2) + e), d2
\* without leading or trailing zeros
FloatRepr(sign, d2, e) ==
    LET n == Len(d2)
        x == Len(d2) + e - 1
        p == Len(d2) + e
    IN  IF x > 308 \/ (x = 308 /\ DigitsGE(d2, MaxDoubleDigits)) THEN OverflowError
        ELSE IF x < 0 - 324 THEN "0"
        ELSE IF n > 15 \/ x < 0 - 307 \/ x > 15 THEN Inexact
        ELSE IF e >= 0 THEN sign \o d2 \o Zeros(e)
        ELSE IF x >= 0 - 4
             THEN (IF p >= 1 THEN sign \o SubSeq(d2, 1, p) \o "." \o SubSeq(d2, p + 1, n)
                            ELSE sign \o "0." \o Zeros(0 - p) \o d2)
             ELSE sign \o Char(d2, 1) \o (IF n > 1 THEN "." \o SubSeq(d2, 2, n) ELSE "")
                       \o "e-" \o (IF 0 - x < 10 THEN "0" ELSE "") \o NatToStr(0 - x)

\* the digits d1 (no leading zero) at power of ten exp, trailing zeros moved
\* into the exponent
Trimmed(sign, d1, exp) ==
    IF RStrip(d1, "0") = "" THEN "0"
    ELSE FloatRepr(sign, RStrip(d1, "0"), exp + (Len(d1) - Len(RStrip(d1, "0"))))

\* lines 42-46 for the parsed float f of str_value
CoercedFloat(str_value, f) ==
    IF f.kind = "bad" \/ f.kind = "nan" THEN str_value
    ELSE IF f.kind = "inf" THEN OverflowError
    ELSE Trimmed(IF f.neg THEN "-" ELSE "", LStrip(f.digs, "0"), f.exp)

numeric_coercion(str_value) == CoercedFloat(str_value, float_parse(str_value))

\* lines 35-49: a digit string with a leading zero is kept as it is
Coerced(str_value) ==
    IF StartsWith(str_value, "0") /\ Len(str_value) > 1 /\ IsDigit(LStrip(str_value, "0"))
    THEN str_value ELSE numeric_coercion(str_value)

\* line 52
Cleaned(coerced) ==
    IF coerced \in {OverflowError, Inexact} THEN coerced
    ELSE RemoveChar(RemoveChar(Lower(coerced), " "), "_")

\* normalize_value: None for a missing cell, else the cleaned string.
normalize_value(value) == IF value = None THEN None ELSE Cleaned(Coerced(Strip(value)))

\* str(col_name).lower().replace(' ', '').replace('_', '')
NormalizedName(col_name) == RemoveChar(RemoveChar(Lower(col_name), " "), "_")

\* the column names of the tables and of the business rules
ColumnNames ==
    {"Origin Country", "Destination Country", "Origin Postal Code", "Destination Postal Code", "Equipment",
     "Incoterm", "Service", "SHIP_DATE", "Valid from", "Valid to", "Carrier agreement", "ETOF #", "Weight",
     "Origin Postal Code Zone", "Destination Postal Code Zone", "Origin Country Region",
     "Destination Country Region"}

\* NormalizedName on the column names, computed once
NormalizedNames == [c \in ColumnNames |-> NormalizedName(c)]

\* normalize_column_name
normalize_column_name(col_name) ==
    IF col_name = None THEN None
    ELSE IF col_name \in ColumnNames THEN NormalizedNames[col_name]
    ELSE NormalizedName(col_name)

\* Python truthiness of a value that is None or a string
Truthy(v) == v # None /\ v # ""

\* the set of the elements of a sequence
Range(seq) == {seq[i] : i \in 1..Len(seq)}

(***************************************************************************)
(* The inputs the model draws from.                                        *)
(***************************************************************************)
RateCardColumns == <<"Origin Country", "Destination Country", "Origin Postal Code", "Destination Postal Code",
                     "Equipment", "Incoterm", "Service", "Valid from", "Valid to", "Carrier agreement">>

Lane(oc, dc, opc, dpc, eq, inc, svc, vf, vt, ca) ==
    [c \in Range(RateCardColumns) |->
        CASE c = "Origin Country" -> oc
          [] c = "Destination Country" -> dc
          [] c = "Origin Postal Code" -> opc
          [] c = "Destination Postal Code" -> dpc
          [] c = "Equipment" -> eq
          [] c = "Incoterm" -> inc
          [] c = "Service" -> svc
          [] c = "Valid from" -> vf
          [] c = "Valid to" -> vt
          [] c = "Carrier agreement" -> ca]

LaneCatalogue ==
    { Lane("US", "DE", "194", "04123", "40HC", "FOB", "AIR", "01.01.2025", "31.12.2025", "AGR-1"),
      Lane("US", "DE", "194", "04123", "40HC", "FOB", "SEA", "01012026", "31122026", "AGR-2"),
      Lane("US", "DE", "194", "04123", "20GP", "FOB", "AIR", "2025.01.01", "31.12.2025", "AGR-3"),
      Lane("United States", "Germany", "999", "88888", "45HC", "EXW", "ROAD", "01.01.2025", None, None) }

\* longest rate table of the model
MaxLanes == 5

\* longest rate table whose lanes are drawn freely
MaxMixedLanes == 3

Repeat(lane, n) == [i \in 1..n |-> lane]

\* every table of at most MaxMixedLanes lanes, and the tables of at most
\* MaxLanes lanes that are a run of one lane followed by a run of another
RateTables ==
    UNION {[1..n -> LaneCatalogue] : n \in 0..MaxMixedLanes}
    \cup UNION {{Repeat(a, i) \o Repeat(b, n - i) : a \in LaneCatalogue, b \in LaneCatalogue, i \in 1..n} :
                    n \in 1..MaxLanes}

FullColumns == <<"Origin Country", "Destination Country", "Origin Postal Code", "Destination Postal Code",
                 "Equipment", "Incoterm", "Service", "SHIP_DATE">>

NoCountryColumns == <<"Origin Postal Code", "Destination Postal Code", "Equipment", "Incoterm", "Service", "SHIP_DATE">>

\* a shipment table without the origin country column, and one without the
\* destination country column
NoOriginColumns == <<"Destination Country", "Origin Postal Code", "Destination Postal Code", "Equipment", "Incoterm",
                     "Service", "SHIP_DATE">>

NoDestinationColumns == <<"Origin Country", "Origin Postal Code", "Destination Postal Code", "Equipment", "Incoterm",
                          "Service", "SHIP_DATE">>

Shipment(columns, oc, dc, opc, dpc, eq, inc, svc, date) ==
    [c \in Range(columns) |->
        CASE c = "Origin Country" -> oc
          [] c = "Destination Country" -> dc
          [] c = "Origin Postal Code" -> opc
          [] c = "Destination Postal Code" -> dpc
          [] c = "Equipment" -> eq
          [] c = "Incoterm" -> inc
          [] c = "Service" -> svc
          [] c = "SHIP_DATE" -> date]

ShipDates == {"20250615", "20250101", "20251231", "20260101", "2025-13-40", "2025-06-15", None}

Shipments ==
    {Shipment(FullColumns, "US", "DE", "19454", "04123", "40HC", "FOB", "Air", d) : d \in ShipDates}
    \cup {Shipment(FullColumns, "US", "DE", "19454", "04123", "40HC", "FOB", "Road", d) : d \in {"20250615", "20260101"}}
    \cup { Shipment(FullColumns, "BR", "DE", "19454", "04123", "40HC", "FOB", "Air", "20250615"),
           Shipment(FullColumns, None, "DE", "19454", "04123", "40HC", "FOB", "Air", "20250615"),
           Shipment(FullColumns, "US", "Germany", "20454", "99999", "20HC", "CIF", "Rail", "20250615"),
           Shipment(FullColumns, "US", "DE", "20454", "99999", "20HC", "CIF", "Road", "20250615"),
           Shipment(FullColumns, "US", "DE", "20454", "99999", "20HC", "CIF", "Road", "20260101"),
           Shipment(FullColumns, "US", "DE", "19454", "04123", "20GP", "FOB", "Sea", "20260101"),
           Shipment(NoCountryColumns, None, None, "19454", "04123", "40HC", "FOB", "Air", "20250615"),
           Shipment(NoCountryColumns, None, None, "20454", "99999", "20HC", "CIF", "Rail", "20260101"),
           Shipment(NoCountryColumns, None, None, "19454", "99999", "45HC", "CIF", "Rail", "20250615"),
           Shipment(NoOriginColumns, None, "DE", "19454", "04123", "40HC", "FOB", "Air", "20250615"),
           Shipment(NoDestinationColumns, "US", None, "19454", "04123", "40HC", "FOB", "Air", "20250615") }

\* a shipment table that shares no column with the rate table
UnsharedColumns == <<"ETOF #", "Weight">>

UnsharedShipment == [c \in Range(UnsharedColumns) |-> IF c = "Weight" THEN "120" ELSE "E-1"]

ColumnsOfRow(row) ==
    IF "Weight" \in DOMAIN row THEN UnsharedColumns
    ELSE IF "Origin Postal Code Zone" \in DOMAIN row THEN FullColumns \o <<"Origin Postal Code Zone">>
    ELSE IF "Origin Country" \in DOMAIN row /\ "Destination Country" \in DOMAIN row THEN FullColumns
    ELSE IF "Origin Country" \in DOMAIN row THEN NoDestinationColumns
    ELSE IF "Destination Country" \in DOMAIN row THEN NoOriginColumns
    ELSE NoCountryColumns

NoConditions == << >>

CountryConditions ==
    [c \in {"Origin Country", "Destination Country", "Equipment", "Service"} |->
        CASE c = "Origin Country" -> <<"Conditional rules:", "1. United States: equals US,USA">>
          [] c = "Destination Country" -> <<"Germany: equals DE">>
          [] c = "Equipment" -> <<"1. 20GP: equals 20DV,22G1">>
          [] c = "Service" -> <<"1. AIR: does not contain Sea in any item", "2. SEA: equal to OCEAN">>]

\* the shipments also run against a rate card that carries conditions
ConditionedShipments ==
    {s \in Shipments : /\ "Origin Country" \in DOMAIN s /\ s["Origin Country"] = "US"
                       /\ s["SHIP_DATE"] \in {"20250615", "20260101"}}

\* a run: one shipment row and the conditions of the rate card
Cases ==
    {[row |-> s, conditions |-> NoConditions] : s \in Shipments \cup {UnsharedShipment}}
    \cup {[row |-> s, conditions |-> CountryConditions] : s \in ConditionedShipments}

\* every cell value of the catalogues
CellValues == UNION {{x[c] : c \in DOMAIN x} : x \in LaneCatalogue \cup Shipments}

\* normalize_value over the catalogue cells, computed once
NormalizedCells == [v \in CellValues |-> normalize_value(v)] @@ << >>

\* normalize_value(value), read from the table when value is a catalogue cell
Normalized(value) == IF value \in CellValues THEN NormalizedCells[value] ELSE normalize_value(value)

RECURSIVE Split(_, _)
\* str.split(ch) for a one-character separator
Split(s, ch) ==
    LET k == FirstIndexOf(s, ch)
    IN  IF k = 0 THEN <<s>> ELSE <<SubSeq(s, 1, k - 1)>> \o Split(SubSeq(s, k + 1, Len(s)), ch)

\* str(value) of a cell: a missing cell prints as nan
Str(v) == IF v = None THEN "nan" ELSE v


\* first element of candidates (a sequence of column names) that is in the
\* set present, None if there is none
FirstPresent(candidates, present) ==
    IF \E i \in 1..Len(candidates) : candidates[i] \in present
    THEN candidates[CHOOSE i \in 1..Len(candidates) :
                        candidates[i] \in present /\ \A j \in 1..(i - 1) : candidates[j] \notin present]
    ELSE None

(***************************************************************************)
(* The tables.  A row is a function from its column names to cells; the    *)
(* columns of a table are kept as a sequence (DataFrame.columns).          *)
(***************************************************************************)
\* Every column name of the modelled tables in the order sorted() gives
\* (code-point order).
ColumnOrder == <<"Carrier agreement", "Destination Country", "Destination Postal Code", "Equipment",
                 "Incoterm", "Origin Country", "Origin Postal Code", "Origin Postal Code Zone", "SHIP_DATE",
                 "Service",
                 "Valid from", "Valid to">>

\* sorted(list(cols)) for a set of column names
Sorted(cols) == SelectSeq(ColumnOrder, LAMBDA c : c \in cols)

\* find_common_columns: the exact common names, sorted; when there is none,
\* the shipment-side names whose normalised form is common to both tables.
find_common_columns(resmed_cols, rate_card_cols) ==
    LET exact == Range(resmed_cols) \cap Range(rate_card_cols)
        rn    == {normalize_column_name(c) : c \in Range(rate_card_cols)}
        \* dict comprehension {normalize(col): col}: one entry per normalised name
        byNorm == {c \in Range(resmed_cols) : normalize_column_name(c) \in rn}
    IN  IF exact # {} THEN Sorted(exact) ELSE Sorted(byNorm)

RECURSIVE NormalizedToOriginal(_)
\* {v: k for k, v in original_to_normalized.items()}: normalised name -> the
\* last column of the table with that normalised name
NormalizedToOriginal(columns) ==
    IF columns = << >> THEN << >>
    ELSE LET last == columns[Len(columns)]
         IN  (normalize_column_name(last) :> last) @@ NormalizedToOriginal(SubSeq(columns, 1, Len(columns) - 1))

RECURSIVE CommonColumnsNormalized(_)
\* common_columns_normalized, lines 1161-1162
CommonColumnsNormalized(common) ==
    IF common = << >> THEN << >>
    ELSE <<normalize_column_name(Head(common))>> \o CommonColumnsNormalized(Tail(common))

RECURSIVE Lookups(_, _)
\* [d[col_norm] for col_norm in norm if col_norm in d]
Lookups(norm, d) ==
    IF norm = << >> THEN << >>
    ELSE (IF Head(norm) \in DOMAIN d THEN <<d[Head(norm)]>> ELSE << >>) \o Lookups(Tail(norm), d)

\* common_etofs_cols_original / common_rate_card_cols_original, lines 1164-1170
CommonColsOriginal(columns, common) == Lookups(CommonColumnsNormalized(common), NormalizedToOriginal(columns))

\* rc_origin_col, lines 1183-1196
RcOriginVariations == <<"Origin Country", "origin country", "OriginCountry", "origincountrycode",
                        "ORIGIN COUNTRY CODE", "Origin Country Code", "ORIGIN_COUNTRY", "ORIGIN_COUNTRY_CODE">>

RcDestVariations == <<"Destination Country", "destination country", "DestinationCountry", "destinationcountrycode",
                      "DESTINATION COUNTRY CODE", "Destination Country Code", "DESTINATION_COUNTRY",
                      "DESTINATION_COUNTRY_CODE">>

FindRcCountryCol(columns, variations, normalized_names) ==
    LET exact == FirstPresent(variations, Range(columns))
        byNorm == SelectSeq(columns, LAMBDA c : normalize_column_name(c) \in normalized_names)
    IN  IF exact # None THEN exact
        ELSE IF Len(byNorm) > 0 THEN byNorm[1] ELSE None

rc_origin_col(columns) == FindRcCountryCol(columns, RcOriginVariations, {"origincountry", "origincountrycode"})

rc_dest_col(columns) == FindRcCountryCol(columns, RcDestVariations, {"destinationcountry", "destinationcountrycode"})

\* unique_rc_orig_countries_norm / unique_rc_dest_countries_norm, lines 1213-1218:
\* set(column.apply(normalize_value).dropna())
UniqueRcCountries(rate_card, col) ==
    IF col = None THEN {}
    ELSE {Normalized(rate_card[i][col]) : i \in 1..Len(rate_card)} \ {None}

\* unique_rc_orig_dest_combinations, lines 1275-1281
OrigDestCombinations(rate_card, ocol, dcol) ==
    IF ocol = None \/ dcol = None THEN {}
    ELSE {<<Normalized(rate_card[i][ocol]), Normalized(rate_card[i][dcol])>> :
            i \in {j \in 1..Len(rate_card) :
                     Truthy(Normalized(rate_card[j][ocol])) /\ Truthy(Normalized(rate_card[j][dcol]))}}

(***************************************************************************)
(* Country code mappings read from the conditions of the rate card's       *)
(* country column, lines 1220-1258.  A condition text is kept as the       *)
(* sequence of its lines (the text split at "\n").                         *)
(***************************************************************************)
RECURSIVE SkipDigits(_)
SkipDigits(s) == IF s # "" /\ CharIn(Char(s, 1), Digits) THEN SkipDigits(Tail(s)) ELSE s

\* re: ^(?:\d+\.\s*)?  the text after a leading ordinal "1. ", the text
\* itself when it has none
StripOrdinal(line) ==
    LET rest == SkipDigits(line)
    IN  IF rest # line /\ StartsWith(rest, ".") THEN LStrip(Tail(rest), " ") ELSE line

\* re.match(r'(?:\d+\.\s*)?([^:]+):\s*(?:equals?|equal to)\s*(.+)', line, re.IGNORECASE):
\* [matched, group 1, group 2].  "equals?" is tried first, so for
\* "X: equal to Y" group 2 is "to Y".
MatchEqualsLine(line) ==
    LET body   == StripOrdinal(line)
        cpos   == FirstIndexOf(body, ":")
        name   == IF cpos = 0 THEN "" ELSE SubSeq(body, 1, cpos - 1)
        logic  == IF cpos = 0 THEN "" ELSE LStrip(SubSeq(body, cpos + 1, Len(body)), " ")
        isEq   == StartsWith(Lower(logic), "equal")
        after  == SubSeq(logic, 6, Len(logic))
        after2 == IF StartsWith(Lower(after), "s") /\ LStrip(Tail(after), " ") # "" THEN Tail(after) ELSE after
        codes  == LStrip(after2, " ")
    IN  IF cpos > 1 /\ isEq /\ codes # ""
        THEN [matched |-> TRUE, name |-> name, codes |-> codes]
        ELSE [matched |-> FALSE, name |-> "", codes |-> ""]

\* the (code, country) pairs one condition line contributes
CodePairsOfLine(raw_line) ==
    LET line == Strip(raw_line)
        m    == MatchEqualsLine(line)
        toks == Split(m.codes, ",")
    IN  IF Contains(line, ":") /\ (Contains(Lower(line), "equals") \/ Contains(Lower(line), "equal to")) /\ m.matched
        THEN {<<Normalized(Strip(toks[i])), Normalized(Strip(m.name))>> :
                i \in {j \in 1..Len(toks) : Truthy(Normalized(Strip(toks[j])))}}
        ELSE {}

RECURSIVE CodeToCountryOfLines(_)
\* the dict the loop over the lines builds: code -> country, a later line
\* overwriting an earlier one for the same code
CodeToCountryOfLines(lines) ==
    IF lines = << >> THEN << >>
    ELSE LET pairs == CodePairsOfLine(lines[Len(lines)])
         IN  [code \in {pr[1] : pr \in pairs} |-> (CHOOSE pr \in pairs : pr[1] = code)[2]]
                 @@ CodeToCountryOfLines(SubSeq(lines, 1, Len(lines) - 1))

\* origin_code_to_country / dest_code_to_country, lines 1222-1258
CodeToCountry(conditions, col) ==
    IF col = None \/ col \notin DOMAIN conditions THEN << >> ELSE CodeToCountryOfLines(conditions[col])

\* country_matches_rate_card, lines 1261-1273
country_matches_rate_card(shipment_country_norm, rc_countries_set, code_to_country_map) ==
    IF ~Truthy(shipment_country_norm) THEN FALSE
    ELSE IF shipment_country_norm \in rc_countries_set THEN TRUE
    ELSE IF shipment_country_norm \in DOMAIN code_to_country_map
            /\ code_to_country_map[shipment_country_norm] \in rc_countries_set THEN TRUE
    ELSE FALSE

\* carrier_agreement_col, lines 1286-1292
carrier_agreement_col(columns) ==
    LET hits == SelectSeq(columns, LAMBDA c : RemoveChar(RemoveChar(Lower(c), " "), "_") = "carrieragreement")
    IN  IF Len(hits) > 0 THEN hits[1] ELSE None

(***************************************************************************)
(* Dates.  A parsed date is the number yyyymmdd, NaT the failed parse      *)
(* (errors='coerce').                                                      *)
(***************************************************************************)
NaT == 0 - 1

IsLeap(y) == (y % 4 = 0 /\ y % 100 # 0) \/ y % 400 = 0

DaysInMonth(y, m) == IF m = 2 THEN (IF IsLeap(y) THEN 29 ELSE 28)
                     ELSE IF m \in {4, 6, 9, 11} THEN 30 ELSE 31

\* pandas Timestamp of year y, month m, day d; NaT when it is no calendar
\* date or outside the Timestamp range (years 1678..2261 are inside)
MakeDate(y, m, d) ==
    IF y >= 1678 /\ y <= 2261 /\ m >= 1 /\ m <= 12 /\ d >= 1 /\ d <= DaysInMonth(y, m)
    THEN y * 10000 + m * 100 + d ELSE NaT

\* pd.to_datetime(s, format='%Y%m%d') of an 8-digit string
ParseYmd8(s) == MakeDate(StrToNat(SubSeq(s, 1, 4)), StrToNat(SubSeq(s, 5, 6)), StrToNat(SubSeq(s, 7, 8)))

\* pd.to_datetime(s, format='%d%m%Y') of an 8-digit string
ParseDmy8(s) == MakeDate(StrToNat(SubSeq(s, 5, 8)), StrToNat(SubSeq(s, 3, 4)), StrToNat(SubSeq(s, 1, 2)))

\* pd.to_datetime(s, format='%d.%m.%Y')
ParseDotted(s) ==
    LET parts == Split(s, ".")
    IN  IF /\ Len(parts) = 3
           /\ IsDigit(parts[1]) /\ Len(parts[1]) <= 2
           /\ IsDigit(parts[2]) /\ Len(parts[2]) <= 2
           /\ IsDigit(parts[3]) /\ Len(parts[3]) = 4
        THEN MakeDate(StrToNat(parts[3]), StrToNat(parts[2]), StrToNat(parts[1]))
        ELSE NaT

\* pd.to_datetime(value, errors='coerce') without a format, on the inputs
\* of the model: an ISO date YYYY-MM-DD parses (with or without dayfirst),
\* any other text of the model's cells does not.
ParseGeneric(s) ==
    LET parts == Split(s, "-")
    IN  IF /\ Len(parts) = 3
           /\ IsDigit(parts[1]) /\ Len(parts[1]) = 4
           /\ IsDigit(parts[2]) /\ Len(parts[2]) <= 2
           /\ IsDigit(parts[3]) /\ Len(parts[3]) <= 2
        THEN MakeDate(StrToNat(parts[1]), StrToNat(parts[2]), StrToNat(parts[3]))
        ELSE NaT

\* date_dt, lines 1666-1672
ParseShipDate(date_value) ==
    LET date_str == Strip(Str(date_value))
    IN  IF IsDigit(date_str) /\ Len(date_str) = 8 THEN ParseYmd8(date_str) ELSE ParseGeneric(date_str)

\* valid_from_dt / valid_to_dt, lines 1675-1698
ParseLaneDate(valid) ==
    LET valid_str == Strip(Str(valid))
    IN  IF Contains(valid_str, ".") THEN ParseDotted(valid_str)
        ELSE IF IsDigit(valid_str) /\ Len(valid_str) = 8 THEN ParseDmy8(valid_str)
        ELSE ParseGeneric(valid_str)

IsValidFromCol(col) == Contains(Lower(col), "valid") /\ Contains(Lower(col), "from")

IsValidToCol(col) == ~IsValidFromCol(col) /\ Contains(Lower(col), "valid") /\ Contains(Lower(col), "to")

\* valid_from_col / valid_to_col, lines 1621-1628: the last column that
\* fits each test, None when there is none
valid_from_col(columns) ==
    LET hits == SelectSeq(columns, IsValidFromCol)
    IN  IF Len(hits) > 0 THEN hits[Len(hits)] ELSE None

valid_to_col(columns) ==
    LET hits == SelectSeq(columns, IsValidToCol)
    IN  IF Len(hits) > 0 THEN hits[Len(hits)] ELSE None

\* date_col, lines 1631-1639
DateColumnNames == <<"SHIP_DATE", "ship_date", "Ship Date", "ship date", "SHIP DATE",
                     "Loading date", "Loading Date", "loading date", "LOADING DATE">>

date_col(row_etofs) ==
    LET hits == SelectSeq(DateColumnNames, LAMBDA c : c \in DOMAIN row_etofs /\ row_etofs[c] # None)
    IN  IF Len(hits) > 0 THEN hits[1] ELSE None

\* the guard "date_col and date_value and valid_from_col and valid_to_col"
DateCheckApplies(row_etofs, rc_columns) ==
    /\ date_col(row_etofs) # None
    /\ Truthy(row_etofs[date_col(row_etofs)])
    /\ valid_from_col(rc_columns) # None
    /\ valid_to_col(rc_columns) # None

\* is_date_valid with exclusive bounds: a date on a bound is out of range
is_date_valid_strict(date_value, rate_card_row, rc_columns) ==
    LET valid_from == rate_card_row[valid_from_col(rc_columns)]
        valid_to   == rate_card_row[valid_to_col(rc_columns)]
        date_dt       == ParseShipDate(date_value)
        valid_from_dt == ParseLaneDate(valid_from)
        valid_to_dt   == ParseLaneDate(valid_to)
    IN  IF valid_from # None /\ valid_to # None
        THEN IF date_dt # NaT /\ valid_from_dt # NaT /\ valid_to_dt # NaT
             THEN ~(date_dt <= valid_from_dt \/ date_dt >= valid_to_dt)
             ELSE TRUE
        ELSE TRUE

\* is_date_valid of one best match, lines 1661-1713
is_date_valid(date_value, rate_card_row, rc_columns) ==
    LET valid_from == rate_card_row[valid_from_col(rc_columns)]
        valid_to   == rate_card_row[valid_to_col(rc_columns)]
        date_dt       == ParseShipDate(date_value)
        valid_from_dt == ParseLaneDate(valid_from)
        valid_to_dt   == ParseLaneDate(valid_to)
    IN  IF valid_from # None /\ valid_to # None
        THEN IF date_dt # NaT /\ valid_from_dt # NaT /\ valid_to_dt # NaT
             THEN ~(date_dt < valid_from_dt \/ date_dt > valid_to_dt)
             ELSE TRUE
        ELSE TRUE

(***************************************************************************)
(* Condition rules: value_satisfies_condition, check_value_against_        *)
(* conditions and find_condition_for_value.                                *)
(***************************************************************************)
\* index of the first occurrence of sub in s, 0 if none
Find(s, sub) ==
    IF Contains(s, sub)
    THEN CHOOSE i \in 1..(Len(s) - Len(sub) + 1) :
            /\ SubSeq(s, i, i + Len(sub) - 1) = sub
            /\ \A j \in 1..(i - 1) : SubSeq(s, j, j + Len(sub) - 1) # sub
    ELSE 0

\* s.split(sub)[0]
BeforeFirst(s, sub) == IF Find(s, sub) = 0 THEN s ELSE SubSeq(s, 1, Find(s, sub) - 1)

\* the text after the first occurrence of sub (sub occurs in s)
AfterFirst(s, sub) == SubSeq(s, Find(s, sub) + Len(sub), Len(s))

\* s.split(sub)[1] when sub occurs in s
SplitSecond(s, sub) == BeforeFirst(AfterFirst(s, sub), sub)

\* [v.strip() for v in s.split(sub)[1].split('in any item')[0].strip().split(',')]
OperandList(condition_lower, phrase) ==
    LET part == Strip(BeforeFirst(SplitSecond(condition_lower, phrase), "in any item"))
        toks == Split(part, ",")
    IN  [i \in 1..Len(toks) |-> Strip(toks[i])]

value_satisfies_condition(resmed_value, rate_card_value, condition_text_in) ==
    LET text0  == IF condition_text_in = None THEN "" ELSE Strip(condition_text_in)
        rate_card_val_str == IF rate_card_value # None THEN Lower(rate_card_value) ELSE ""
        hasColon == Contains(text0, ":")
        cleaned  == StripOrdinal(text0)
        condition_value == Strip(BeforeFirst(cleaned, ":"))
        condition_logic == Strip(AfterFirst(cleaned, ":"))
        scopedOut == hasColon /\ rate_card_val_str # "" /\ Lower(condition_value) # rate_card_val_str
        condition_lower == IF hasColon THEN Lower(condition_logic) ELSE Lower(text0)
        is_empty == \/ resmed_value = None
                    \/ Strip(resmed_value) = ""
                    \/ Lower(resmed_value) \in {"nan", "none", "null", ""}
        resmed_val_str == IF resmed_value # None THEN Lower(resmed_value) ELSE ""
        forbiddenC == OperandList(condition_lower, "does not contain")
        forbiddenE == OperandList(condition_lower, "does not equal")
        requiredC  == OperandList(condition_lower, "contains")
        requiredE  == IF Contains(condition_lower, "equal to")
                      THEN OperandList(condition_lower, "equal to")
                      ELSE OperandList(condition_lower, "equals")
    IN  IF condition_text_in = None \/ condition_text_in = "" THEN FALSE
        ELSE IF scopedOut THEN FALSE
        ELSE IF Contains(condition_lower, "is empty") /\ is_empty THEN TRUE
        ELSE IF Contains(condition_lower, "does not contain")
             THEN IF is_empty THEN TRUE
                  ELSE ~\E i \in 1..Len(forbiddenC) : forbiddenC[i] # "" /\ Contains(resmed_val_str, forbiddenC[i])
        ELSE IF Contains(condition_lower, "does not equal")
             THEN IF is_empty THEN TRUE
                  ELSE ~\E i \in 1..Len(forbiddenE) : forbiddenE[i] # "" /\ resmed_val_str = forbiddenE[i]
        ELSE IF Contains(condition_lower, "contains")
             THEN IF is_empty THEN FALSE
                  ELSE \E i \in 1..Len(requiredC) : requiredC[i] # "" /\ Contains(resmed_val_str, requiredC[i])
        ELSE IF Contains(condition_lower, "equal to") \/ Contains(condition_lower, "equals")
             THEN IF is_empty THEN FALSE
                  ELSE \E i \in 1..Len(requiredE) : requiredE[i] # "" /\ resmed_val_str = requiredE[i]
        ELSE FALSE

\* column_key: the first key of conditions_dict with the column's
\* normalised name, None if there is none.  ConditionKeys is the key order.
ConditionKey(conditions, column_name) ==
    LET hits == SelectSeq(Sorted(DOMAIN conditions),
                          LAMBDA k : normalize_column_name(k) = normalize_column_name(column_name))
    IN  IF Len(hits) > 0 THEN hits[1] ELSE None

\* the lines of the column's conditions that name the rate card value:
\* re.search(r'(?:\d+\.\s*)?<value>:', condition_lower), header lines skipped
ConditionsForValue(conditions, column_name, rate_card_value) ==
    LET key == ConditionKey(conditions, column_name)
        rate_card_val_str == IF rate_card_value # None THEN Lower(rate_card_value) ELSE ""
    IN  IF key = None \/ rate_card_val_str = "" THEN << >>
        ELSE SelectSeq([i \in 1..Len(conditions[key]) |-> Strip(conditions[key][i])],
                       LAMBDA line : /\ line # ""
                                     /\ ~(Contains(Lower(line), "conditional rules") /\ ~Contains(line, ":"))
                                     /\ Contains(Lower(line), rate_card_val_str \o ":"))

\* check_value_against_conditions: is_valid
check_value_against_conditions(resmed_value, rate_card_value, column_name, conditions) ==
    LET lines == ConditionsForValue(conditions, column_name, rate_card_value)
    IN  \E i \in 1..Len(lines) : value_satisfies_condition(resmed_value, rate_card_value, lines[i])

\* find_condition_for_value: the first condition line naming the value, None if none
find_condition_for_value(rate_card_value, column_name, conditions) ==
    LET lines == ConditionsForValue(conditions, column_name, rate_card_value)
    IN  IF Len(lines) > 0 THEN lines[1] ELSE None

(***************************************************************************)
(* State of match_shipments_with_rate_card.                                *)
(***************************************************************************)
VARIABLES
    df_etofs,                        \* the shipment table: sequence of rows
    etofs_columns,                   \* df_etofs.columns
    df_filtered_rate_card,           \* the rate table: sequence of lanes
    rate_card_columns,               \* df_filtered_rate_card.columns
    conditions_dict,                 \* column -> lines of its condition text
    business_rules_lookup,           \* the business rules, NoLookup for None
    index_etofs,                     \* position of the row the loop is at
    pc,                              \* stage of the loop body the row is at
    comments_for_current_etofs_row,  \* lines collected for the current row
    best_matching_rate_card_rows,    \* candidates of the current row
    too_many_matches,                \* the tie flag of the current row
    carrier_agreement_value,         \* local of the current row
    \* the locals of the pre-step of the current row, one field each:
    \* validated (columns_validated_by_business_rules), messages
    \* (business_rule_validation_messages), passed and failed
    \* (business_rule_columns_passed, business_rule_columns_failed), and
    \* raised, the exception the row has raised
    business_rules,
    comment,                         \* output column 'comment': row -> lines
    rate_card_out,                   \* output column 'Rate Card': row -> cell
    stages,                          \* row -> stages of the loop body it ran
    \* what the function computes once, before the loop (lines 1148-1296)
    common_columns,                  \* the argument run_matching passes (line 2347)
    common_columns_normalized,
    common_etofs_cols_original,
    common_rate_card_cols_original,
    unique_rc_origins,
    unique_rc_destinations,
    origin_code_to_country,
    dest_code_to_country,
    unique_rc_orig_dest_combinations,
    \* the pattern branch of lines 1950-1984, run on its own
    pattern_input,                   \* all_discrepancies, the pooled list it is given
    pattern_comments,                \* the lines it appends to the comment
    pattern_pc,                      \* "idle", "analyze" or "done"
    \* normalize_value, lines 24-52, called on its own
    norm_value,                      \* the argument
    norm_result,                     \* what the call returns or raises
    norm_again,                      \* normalize_value of a returned string
    norm_pc,                         \* "idle", "call" or "done"
    \* value_satisfies_condition, lines 623-818, called on its own
    cond_resmed_value,               \* the shipment value
    cond_rate_card_value,            \* the lane value
    cond_token,                      \* the value the rule text is written for
    cond_text,                       \* condition_text
    cond_result,                     \* what the call returns
    cond_pc,                         \* "idle", "call" or "done"
    \* validate_business_rule, lines 315-556, called on its own
    geo_row,                        \* etof_row
    geo_col,                        \* business_rule_col
    geo_value,                      \* the cell of the business rule column
    geo_lookup,                     \* business_rules_lookup
    geo_result,                     \* the tuple the call returns
    geo_pc                          \* "idle", "call" or "done"

setup == <<common_columns, common_columns_normalized, common_etofs_cols_original, common_rate_card_cols_original,
           unique_rc_origins, unique_rc_destinations, origin_code_to_country, dest_code_to_country,
           unique_rc_orig_dest_combinations>>

inputs == <<df_etofs, etofs_columns, df_filtered_rate_card, rate_card_columns, conditions_dict,
            business_rules_lookup, setup>>

pattern == <<pattern_input, pattern_comments, pattern_pc>>

norm == <<norm_value, norm_result, norm_again, norm_pc>>

cond == <<cond_resmed_value, cond_rate_card_value, cond_token, cond_text, cond_result, cond_pc>>

geo == <<geo_row, geo_col, geo_value, geo_lookup, geo_result, geo_pc>>

functions == <<norm, cond, geo>>

vars == <<inputs, pattern, functions, index_etofs, pc, comments_for_current_etofs_row, best_matching_rate_card_rows,
          too_many_matches, carrier_agreement_value, business_rules, comment, rate_card_out, stages>>

(***************************************************************************)
(* STEP 3 of the loop body: lane scoring, lines 1551-1598.                 *)
(***************************************************************************)
\* is_postal_code_column of the scoring loop, line 1581
IsPostalScoreColumn(col_norm) ==
    Contains(Lower(col_norm), "post") \/ Contains(Lower(col_norm), "ship_post") \/ Contains(Lower(col_norm), "cust_post")

\* ColumnCounts comparing postal codes like every other column
ColumnCountsExact(row_etofs, row_rate_card, i) ==
    /\ i <= Len(common_etofs_cols_original) /\ common_etofs_cols_original[i] \in DOMAIN row_etofs
    /\ i <= Len(common_rate_card_cols_original) /\ common_rate_card_cols_original[i] \in DOMAIN row_rate_card
    /\ Normalized(row_etofs[common_etofs_cols_original[i]]) = Normalized(row_rate_card[common_rate_card_cols_original[i]])

\* does common column i count towards current_matches, lines 1575-1588
ColumnCounts(row_etofs, row_rate_card, i) ==
    LET col_norm == common_columns_normalized[i]
        inEtofs  == i <= Len(common_etofs_cols_original) /\ common_etofs_cols_original[i] \in DOMAIN row_etofs
        inRc     == i <= Len(common_rate_card_cols_original) /\ common_rate_card_cols_original[i] \in DOMAIN row_rate_card
        etofs_val == Normalized(row_etofs[common_etofs_cols_original[i]])
        rc_val    == Normalized(row_rate_card[common_rate_card_cols_original[i]])
    IN  /\ inEtofs /\ inRc
        /\ IF IsPostalScoreColumn(col_norm) /\ Truthy(etofs_val) /\ Truthy(rc_val)
           THEN StartsWith(etofs_val, rc_val)
           ELSE etofs_val = rc_val

\* current_matches of one lane
current_matches(row_etofs, row_rate_card) ==
    Cardinality({i \in 1..Len(common_columns_normalized) : ColumnCounts(row_etofs, row_rate_card, i)})

\* a candidate: the lane (rate_card_row), its discrepancies, and lane, the
\* position of the lane in the rate table (kept to state the claims)
Candidate(k) == [lane |-> k, rate_card_row |-> df_filtered_rate_card[k], discrepancies |-> << >>]

RECURSIVE ScoreLoopFirstOnly(_, _, _, _)
\* ScoreLoop breaking ties: a lane that equals the running maximum is dropped
ScoreLoopFirstOnly(row_etofs, k, max_matches, best) ==
    IF k > Len(df_filtered_rate_card) THEN best
    ELSE LET cm == current_matches(row_etofs, df_filtered_rate_card[k])
         IN  IF cm > max_matches THEN ScoreLoopFirstOnly(row_etofs, k + 1, cm, <<Candidate(k)>>)
             ELSE ScoreLoopFirstOnly(row_etofs, k + 1, max_matches, best)

RECURSIVE ScoreLoop(_, _, _, _)
\* the loop over the rate table with its running maximum, lines 1560-1595
ScoreLoop(row_etofs, k, max_matches, best) ==
    IF k > Len(df_filtered_rate_card) THEN best
    ELSE LET cm == current_matches(row_etofs, df_filtered_rate_card[k])
         IN  IF cm > max_matches THEN ScoreLoop(row_etofs, k + 1, cm, <<Candidate(k)>>)
             ELSE IF cm = max_matches /\ cm > 0 THEN ScoreLoop(row_etofs, k + 1, max_matches, Append(best, Candidate(k)))
             ELSE ScoreLoop(row_etofs, k + 1, max_matches, best)

BestMatches(row_etofs) == ScoreLoop(row_etofs, 1, 0 - 1, << >>)

\* the tie threshold of line 1598
TooManyMatchesThreshold == 4

\* the discrepancy threshold of line 1946
TooManyFieldsThreshold == 5

(***************************************************************************)
(* STEP 4: discrepancies of one candidate, lines 1770-1943.                *)
(***************************************************************************)
Discrepancy(column, etofs_value, rate_card_value, condition, type) ==
    [column |-> column, etofs_value |-> etofs_value, rate_card_value |-> rate_card_value,
     condition |-> condition, type |-> type]

\* the date_range discrepancy of lines 1775-1846
DateDiscrepancy(row_etofs, rate_card_row) ==
    IF DateCheckApplies(row_etofs, rate_card_columns)
       /\ ~is_date_valid(row_etofs[date_col(row_etofs)], rate_card_row, rate_card_columns)
    THEN <<Discrepancy(date_col(row_etofs), row_etofs[date_col(row_etofs)],
                       "Valid from: " \o Str(rate_card_row[valid_from_col(rate_card_columns)]) \o " to "
                           \o Str(rate_card_row[valid_to_col(rate_card_columns)]),
                       None, "date_range")>>
    ELSE << >>

\* is_postal_code_column of the discrepancy loop, line 1874
IsPostalDiscColumn(col_norm) == IsPostalScoreColumn(col_norm) \/ Contains(Lower(col_norm), "postal")

\* ColumnDiscrepancy that does not look at the conditions of the rate card
ColumnDiscrepancyUnconditioned(row_etofs, rate_card_row, i, validated, br_columns) ==
    LET col_norm == common_columns_normalized[i]
        etofs_original_col == common_etofs_cols_original[i]
        rate_card_original_col == common_rate_card_cols_original[i]
        etofs_col_norm == normalize_column_name(etofs_original_col)
        etofs_val == IF etofs_original_col \in DOMAIN row_etofs THEN row_etofs[etofs_original_col] ELSE None
        rate_card_val == IF rate_card_original_col \in DOMAIN rate_card_row THEN rate_card_row[rate_card_original_col] ELSE None
        normalized_etofs_val == Normalized(etofs_val)
        normalized_rate_card_val == Normalized(rate_card_val)
        is_business_rule_col == \E bc \in br_columns : normalize_column_name(bc) = etofs_col_norm
    IN  IF i > Len(common_etofs_cols_original) \/ i > Len(common_rate_card_cols_original) THEN << >>
        ELSE IF etofs_col_norm \in validated THEN << >>
        ELSE IF normalized_etofs_val = normalized_rate_card_val THEN << >>
        ELSE IF /\ IsPostalDiscColumn(col_norm) /\ Truthy(normalized_etofs_val) /\ Truthy(normalized_rate_card_val)
                /\ StartsWith(normalized_etofs_val, normalized_rate_card_val) THEN << >>
        ELSE IF is_business_rule_col
                /\ (etofs_val = None \/ Lower(Strip(etofs_val)) \in {"", "nan", "none"}) THEN << >>
        ELSE <<Discrepancy(etofs_original_col, etofs_val, rate_card_val,
                           find_condition_for_value(rate_card_val, etofs_original_col, conditions_dict), "")>>

\* the discrepancy of common column i, << >> when it has none, lines 1848-1942
ColumnDiscrepancy(row_etofs, rate_card_row, i, validated, br_columns) ==
    LET col_norm == common_columns_normalized[i]
        etofs_original_col == common_etofs_cols_original[i]
        rate_card_original_col == common_rate_card_cols_original[i]
        etofs_col_norm == normalize_column_name(etofs_original_col)
        etofs_val == IF etofs_original_col \in DOMAIN row_etofs THEN row_etofs[etofs_original_col] ELSE None
        rate_card_val == IF rate_card_original_col \in DOMAIN rate_card_row THEN rate_card_row[rate_card_original_col] ELSE None
        normalized_etofs_val == Normalized(etofs_val)
        normalized_rate_card_val == Normalized(rate_card_val)
        is_business_rule_col == \E bc \in br_columns : normalize_column_name(bc) = etofs_col_norm
    IN  IF i > Len(common_etofs_cols_original) \/ i > Len(common_rate_card_cols_original) THEN << >>
        ELSE IF etofs_col_norm \in validated THEN << >>
        ELSE IF normalized_etofs_val = normalized_rate_card_val THEN << >>
        ELSE IF /\ IsPostalDiscColumn(col_norm) /\ Truthy(normalized_etofs_val) /\ Truthy(normalized_rate_card_val)
                /\ StartsWith(normalized_etofs_val, normalized_rate_card_val) THEN << >>
        ELSE IF check_value_against_conditions(etofs_val, rate_card_val, etofs_original_col, conditions_dict) THEN << >>
        ELSE IF is_business_rule_col
                /\ (etofs_val = None \/ Lower(Strip(etofs_val)) \in {"", "nan", "none"}) THEN << >>
        ELSE <<Discrepancy(etofs_original_col, etofs_val, rate_card_val,
                           find_condition_for_value(rate_card_val, etofs_original_col, conditions_dict), "")>>

RECURSIVE ColumnDiscrepancies(_, _, _, _, _)
ColumnDiscrepancies(row_etofs, rate_card_row, i, validated, br_columns) ==
    IF i > Len(common_columns_normalized) THEN << >>
    ELSE ColumnDiscrepancy(row_etofs, rate_card_row, i, validated, br_columns)
             \o ColumnDiscrepancies(row_etofs, rate_card_row, i + 1, validated, br_columns)

\* discrepancies of one best match
DiscrepanciesOf(row_etofs, rate_card_row, validated, br_columns) ==
    DateDiscrepancy(row_etofs, rate_card_row) \o ColumnDiscrepancies(row_etofs, rate_card_row, 1, validated, br_columns)

(***************************************************************************)
(* analyze_discrepancy_patterns, lines 1019-1085.                          *)
(***************************************************************************)
RECURSIVE DistinctInOrder(_, _)
\* the distinct columns of a discrepancy list in order of first occurrence
\* (the key order of column_counts)
DistinctInOrder(discs, seen) ==
    IF discs = << >> THEN << >>
    ELSE IF Head(discs).column \in seen THEN DistinctInOrder(Tail(discs), seen)
    ELSE <<Head(discs).column>> \o DistinctInOrder(Tail(discs), seen \cup {Head(discs).column})

ColumnCount(discs, col) == Cardinality({i \in 1..Len(discs) : discs[i].column = col})

\* column_discrepancies[col][0]
FirstDiscrepancyOf(discs, col) ==
    discs[CHOOSE i \in 1..Len(discs) : discs[i].column = col /\ \A j \in 1..(i - 1) : discs[j].column # col]

RECURSIVE SortedByCount(_, _)
\* sorted(column_counts.items(), key=count, reverse=True): stable, so equal
\* counts stay in key order
SortedByCount(cols, discs) ==
    IF cols = << >> THEN << >>
    ELSE LET best == CHOOSE i \in 1..Len(cols) :
                        /\ \A j \in 1..Len(cols) : ColumnCount(discs, cols[j]) <= ColumnCount(discs, cols[i])
                        /\ \A j \in 1..(i - 1) : ColumnCount(discs, cols[j]) < ColumnCount(discs, cols[i])
         IN  <<cols[best]>> \o SortedByCount(SubSeq(cols, 1, best - 1) \o SubSeq(cols, best + 1, Len(cols)), discs)

RECURSIVE JoinWith(_, _)
\* sep.join(parts)
JoinWith(parts, sep) ==
    IF parts = << >> THEN ""
    ELSE IF Len(parts) = 1 THEN parts[1]
    ELSE parts[1] \o sep \o JoinWith(Tail(parts), sep)

RECURSIVE CoveredCount(_, _, _)
CoveredCount(sorted, discs, k) == IF k = 0 THEN 0 ELSE CoveredCount(sorted, discs, k - 1) + ColumnCount(discs, sorted[k])

PatternResult(has_common_pattern, pattern_comment, minor_discrepancies) ==
    [has_common_pattern |-> has_common_pattern, pattern_comment |-> pattern_comment,
     minor_discrepancies |-> minor_discrepancies]

RecheckComment == "Please recheck the shipment details"

\* analyze_discrepancy_patterns asking the top columns for 70% only
analyze_discrepancy_patterns_low(all_discrepancies) ==
    LET cols  == DistinctInOrder(all_discrepancies, {})
        total == Len(all_discrepancies)
        dominant == {i \in 1..Len(cols) : ColumnCount(all_discrepancies, cols[i]) * 10 >= total * 7}
        dom   == cols[CHOOSE i \in dominant : \A j \in dominant : i <= j]
        others == SelectSeq(cols, LAMBDA c : c # dom)
        sorted == SortedByCount(cols, all_discrepancies)
        limit == IF Len(sorted) < 3 THEN Len(sorted) ELSE 3
        reach == {k \in 1..limit : CoveredCount(sorted, all_discrepancies, k) * 10 >= total * 7}
        taken == IF reach = {} THEN limit ELSE CHOOSE k \in reach : \A j \in reach : k <= j
    IN  IF all_discrepancies = << >> THEN PatternResult(FALSE, RecheckComment, << >>)
        ELSE IF Len(cols) = 1 THEN PatternResult(TRUE, cols[1] \o ": Shipment value needs to be changed", << >>)
        ELSE IF dominant # {}
             THEN PatternResult(TRUE, dom \o ": Shipment value needs to be changed",
                                [i \in 1..Len(others) |-> FirstDiscrepancyOf(all_discrepancies, others[i])])
        ELSE IF taken <= 3 /\ CoveredCount(sorted, all_discrepancies, taken) * 10 >= total * 7
             THEN PatternResult(TRUE, JoinWith(SubSeq(sorted, 1, taken), ", ") \o ": Shipment values need to be changed", << >>)
        ELSE PatternResult(FALSE, RecheckComment, << >>)

analyze_discrepancy_patterns(all_discrepancies) ==
    LET cols  == DistinctInOrder(all_discrepancies, {})
        total == Len(all_discrepancies)
        dominant == {i \in 1..Len(cols) : ColumnCount(all_discrepancies, cols[i]) * 10 >= total * 7}
        dom   == cols[CHOOSE i \in dominant : \A j \in dominant : i <= j]
        others == SelectSeq(cols, LAMBDA c : c # dom)
        sorted == SortedByCount(cols, all_discrepancies)
        limit == IF Len(sorted) < 3 THEN Len(sorted) ELSE 3
        reach == {k \in 1..limit : CoveredCount(sorted, all_discrepancies, k) * 10 >= total * 8}
        taken == IF reach = {} THEN limit ELSE CHOOSE k \in reach : \A j \in reach : k <= j
    IN  IF all_discrepancies = << >> THEN PatternResult(FALSE, RecheckComment, << >>)
        ELSE IF Len(cols) = 1 THEN PatternResult(TRUE, cols[1] \o ": Shipment value needs to be changed", << >>)
        ELSE IF dominant # {}
             THEN PatternResult(TRUE, dom \o ": Shipment value needs to be changed",
                                [i \in 1..Len(others) |-> FirstDiscrepancyOf(all_discrepancies, others[i])])
        ELSE IF taken <= 3 /\ CoveredCount(sorted, all_discrepancies, taken) * 10 >= total * 8
             THEN PatternResult(TRUE, JoinWith(SubSeq(sorted, 1, taken), ", ") \o ": Shipment values need to be changed", << >>)
        ELSE PatternResult(FALSE, RecheckComment, << >>)

(***************************************************************************)
(* Comment lines of the summary, lines 1945-2026.                          *)
(***************************************************************************)
\* re.search(r':\s*equals?\s+([^\n]+)', condition_text, re.IGNORECASE):
\* the stripped group 1 for the first colon it matches at, None if none
EqualsTargetAt(text, i) ==
    LET rest  == LStrip(SubSeq(text, i + 1, Len(text)), " ")
        after == SubSeq(rest, 6, Len(rest))
        a2    == IF StartsWith(Lower(after), "s") THEN Tail(after) ELSE after
    IN  IF Char(text, i) = ":" /\ StartsWith(Lower(rest), "equal") /\ StartsWith(a2, " ") /\ LStrip(a2, " ") # ""
        THEN Strip(a2) ELSE None

EqualsTarget(condition_text) ==
    LET hits == {i \in 1..Len(condition_text) : EqualsTargetAt(condition_text, i) # None}
    IN  IF hits = {} THEN None ELSE EqualsTargetAt(condition_text, CHOOSE i \in hits : \A j \in hits : i <= j)

\* target_value of a discrepancy, lines 1972-1979 and 2004-2021
TargetValue(disc) ==
    IF Truthy(disc.condition) /\ EqualsTarget(disc.condition) # None
    THEN EqualsTarget(disc.condition) ELSE Str(disc.rate_card_value)

TooManyFieldsComment == "Please recheck the shipment details. Too many shipment details to update."

AlsoComment(minor_disc) ==
    "Also: " \o minor_disc.column \o ": '" \o Str(minor_disc.etofs_value) \o "' → '" \o TargetValue(minor_disc) \o "'"

LanesComment(n) == "(" \o NatToStr(n) \o " possible rate lanes can be applied with this change)"

RECURSIVE Concat(_)
\* concatenation of a sequence of sequences
Concat(seqs) == IF seqs = << >> THEN << >> ELSE Head(seqs) \o Concat(Tail(seqs))

\* all_discrepancies, lines 1953-1955
Pooled(best) == Concat([i \in 1..Len(best) |-> best[i].discrepancies])

\* AlsoComments leaving the minority columns out
AlsoCommentsNone(minor_discrepancies) == << >>

\* the "Also" lines of lines 1971-1982
AlsoComments(minor_discrepancies) == [i \in 1..Len(minor_discrepancies) |-> AlsoComment(minor_discrepancies[i])]

\* the lines the tooManyMatches branch appends for the pooled discrepancies
\* of lanes best matches, lines 1957-1984
PatternCommentsOf(pooled, lanes) ==
    LET r == analyze_discrepancy_patterns(pooled)
    IN  IF pooled = << >> THEN << >>
        ELSE <<r.pattern_comment>>
             \o (IF r.has_common_pattern
                 THEN AlsoComments(r.minor_discrepancies) \o <<LanesComment(lanes)>>
                 ELSE << >>)

\* lines 1951-1984 for the best matches of a row
PatternComments(best) == PatternCommentsOf(Pooled(best), Len(best))

MatchHeader(n) == "Discrepancies for Match " \o NatToStr(n) \o ":"

DiscrepancyComment(disc) ==
    IF disc.type = "date_range"
    THEN "  " \o disc.column \o ": Shipment value '" \o Str(disc.etofs_value) \o "' is outside valid date range ("
              \o disc.rate_card_value \o ")"
    ELSE " " \o disc.column \o ": Shipment value '" \o Str(disc.etofs_value) \o "' needs to be changed to '"
             \o TargetValue(disc) \o "'"

\* the per-match blocks, lines 1992-2026
MatchBlocks(best) ==
    Concat([i \in 1..Len(best) |->
              IF best[i].discrepancies = << >> THEN << >>
              ELSE <<MatchHeader(i)>> \o [j \in 1..Len(best[i].discrepancies) |-> DiscrepancyComment(best[i].discrepancies[j])]])

\* has_recheck_comment, line 1988
HasRecheckComment(comments) == \E i \in 1..Len(comments) : Contains(comments[i], RecheckComment)

\* SummaryComments itemizing the matches whatever the tie flag says
SummaryCommentsItemized(comments, best, too_many) ==
    LET c1 == IF \E i \in 1..Len(best) : Len(best[i].discrepancies) > TooManyFieldsThreshold
              THEN Append(comments, TooManyFieldsComment) ELSE comments
        c2 == IF too_many THEN c1 \o PatternComments(best) ELSE c1
    IN  IF ~HasRecheckComment(c2) THEN c2 \o MatchBlocks(best) ELSE c2

\* the comments after lines 1945-2026
SummaryComments(comments, best, too_many) ==
    LET c1 == IF \E i \in 1..Len(best) : Len(best[i].discrepancies) > TooManyFieldsThreshold
              THEN Append(comments, TooManyFieldsComment) ELSE comments
        c2 == IF too_many THEN c1 \o PatternComments(best) ELSE c1
    IN  IF ~HasRecheckComment(c2) /\ ~too_many THEN c2 \o MatchBlocks(best) ELSE c2

(***************************************************************************)
(* The business rules, lines 99-560.  A dict is kept as the sequence of    *)
(* its items, in key order; business_rule_columns, a set, as the sequence  *)
(* its iteration gives.                                                    *)
(***************************************************************************)
\* business_rules_lookup = None; given tells a lookup from None
NoLookup ==
    [given |-> FALSE, rule_to_country |-> << >>, rule_to_postal_codes |-> << >>, column_to_rules |-> << >>,
     business_rule_columns |-> << >>]

\* d.get(key, default)
DictGet(items, key, default) ==
    IF \E i \in 1..Len(items) : items[i][1] = key
    THEN items[CHOOSE i \in 1..Len(items) : items[i][1] = key][2]
    ELSE default

\* list(d.keys())
DictKeys(items) == [i \in 1..Len(items) |-> items[i][1]]

\* repr of a list of strings
ListRepr(strings) == "[" \o JoinWith([i \in 1..Len(strings) |-> "'" \o strings[i] \o "'"], ", ") \o "]"

\* how an f-string prints a value that may be None
Fmt(v) == IF v = None THEN "None" ELSE v

\* is_origin, is_destination, is_country_region of a business rule column
IsOriginCol(col) ==
    Contains(Lower(col), "origin") \/ Contains(Lower(col), "ship") \/ Contains(Lower(col), "from")

IsDestinationCol(col) ==
    Contains(Lower(col), "destination") \/ Contains(Lower(col), "cust") \/ Contains(Lower(col), "to")

IsCountryRegionCol(col) == Contains(Lower(col), "country") /\ Contains(Lower(col), "region")

\* [c.strip().upper() for c in str(expected_country).split(',') if c.strip()]
ExpectedCountries(expected_country) ==
    SelectSeq([i \in 1..Len(Split(expected_country, ",")) |-> Upper(Strip(Split(expected_country, ",")[i]))],
              LAMBDA c : c # "")

\* actual_country_norm in expected_countries_list
CountryIn(actual_country, expected_country) ==
    Upper(Strip(actual_country)) \in Range(ExpectedCountries(expected_country))

\* the postal code starts with one of the expected postal codes
PostalStarts(actual_postal, expected_postal_codes) ==
    \E i \in 1..Len(expected_postal_codes) :
        StartsWith(Lower(Strip(actual_postal)), Lower(Strip(expected_postal_codes[i])))

\* failure_details; falsy is TRUE for the empty dict
Details(falsy, actual_country, actual_postal, is_country_region, failed_rules, same_country_failures) ==
    [falsy |-> falsy, actual_country |-> actual_country, actual_postal |-> actual_postal,
     is_country_region |-> is_country_region, failed_rules |-> failed_rules,
     same_country_failures |-> same_country_failures]

EmptyDetails == Details(TRUE, None, None, FALSE, << >>, << >>)

\* an entry of failed_rules or same_country_failures
FailedRule(rule_name, failure_type, expected_country, expected_postal) ==
    [rule_name |-> rule_name, failure_type |-> failure_type, expected_country |-> expected_country,
     expected_postal |-> expected_postal]

\* the country and postal columns of the row for the side of the column;
\* etof_row.get of each (None when there is no such column)
GeoCells(etof_row, is_country_region, country_col_variations, postal_col_variations) ==
    [is_country_region |-> is_country_region,
     country_col |-> FirstPresent(country_col_variations, DOMAIN etof_row),
     postal_col  |-> IF is_country_region THEN None ELSE FirstPresent(postal_col_variations, DOMAIN etof_row),
     actual_country |-> IF FirstPresent(country_col_variations, DOMAIN etof_row) = None THEN None
                        ELSE etof_row[FirstPresent(country_col_variations, DOMAIN etof_row)],
     actual_postal  |-> IF is_country_region \/ FirstPresent(postal_col_variations, DOMAIN etof_row) = None THEN None
                        ELSE etof_row[FirstPresent(postal_col_variations, DOMAIN etof_row)]]

\* the present cells as a list of column names
Found(col) == IF col = None THEN << >> ELSE <<col>>

(***************************************************************************)
(* find_matching_business_rule_by_geo, lines 99-312.  A result is the      *)
(* tuple the function returns.                                             *)
(***************************************************************************)
SearchOriginCountryCols == <<"Origin Country", "origin country", "OriginCountry", "ORIGIN_COUNTRY">>

SearchOriginPostalCols == <<"Origin Postal Code", "origin postal code", "OriginPostalCode", "ORIGIN_POSTAL_CODE">>

SearchDestCountryCols == <<"Destination Country", "destination country", "DestinationCountry", "DESTINATION_COUNTRY">>

SearchDestPostalCols == <<"Destination Postal Code", "destination postal code", "DestinationPostalCode",
                          "DESTINATION_POSTAL_CODE">>

\* rules_for_column: the rules of the first key of column_to_rules with the
\* column's normalised name, << >> if there is none
RulesForColumn(column_to_rules, business_rule_col) ==
    IF \E i \in 1..Len(column_to_rules) :
          normalize_column_name(column_to_rules[i][1]) = normalize_column_name(business_rule_col)
    THEN column_to_rules[CHOOSE i \in 1..Len(column_to_rules) :
            /\ normalize_column_name(column_to_rules[i][1]) = normalize_column_name(business_rule_col)
            /\ \A j \in 1..(i - 1) :
                  normalize_column_name(column_to_rules[j][1]) # normalize_column_name(business_rule_col)][2]
    ELSE << >>

\* country_match of lines 236-251
SearchCountryMatch(expected_country, actual_country) ==
    IF Truthy(expected_country) /\ Truthy(actual_country) THEN CountryIn(actual_country, expected_country)
    ELSE ~Truthy(expected_country)

\* postal_match of lines 264-284
SearchPostalMatch(is_country_region, expected_postal_codes, actual_postal) ==
    IF is_country_region THEN TRUE
    ELSE IF expected_postal_codes # << >> /\ Truthy(actual_postal)
         THEN PostalStarts(actual_postal, expected_postal_codes)
    ELSE expected_postal_codes = << >>

\* the message of a found rule, lines 300-303
MatchesMessage(rule_name, is_country_region, expected_country, expected_postal_codes) ==
    IF is_country_region
    THEN "Rule '" \o rule_name \o "' matches (Country=" \o Fmt(expected_country) \o ")"
    ELSE "Rule '" \o rule_name \o "' matches (Country=" \o Fmt(expected_country) \o ", Postal="
             \o ListRepr(expected_postal_codes) \o ")"

RECURSIVE SearchRules(_, _, _, _, _, _, _)
\* the loop of lines 226-310 over rules_for_column from rule i on, with the
\* failures collected so far
SearchRules(lookup, business_rule_col, rules, i, g, failed_rules, same_country_failures) ==
    IF i > Len(rules)
    THEN <<None, << >>, "No matching rule found for column '" \o business_rule_col \o "'",
           Details(FALSE, g.actual_country, g.actual_postal, g.is_country_region, failed_rules,
                   same_country_failures)>>
    ELSE IF ~SearchCountryMatch(DictGet(lookup.rule_to_country, rules[i], None), g.actual_country)
    THEN SearchRules(lookup, business_rule_col, rules, i + 1, g,
                     Append(failed_rules, FailedRule(rules[i], "country", DictGet(lookup.rule_to_country, rules[i], None),
                                                     DictGet(lookup.rule_to_postal_codes, rules[i], << >>))),
                     same_country_failures)
    ELSE IF SearchPostalMatch(g.is_country_region, DictGet(lookup.rule_to_postal_codes, rules[i], << >>), g.actual_postal)
    THEN <<rules[i], <<business_rule_col>> \o Found(g.country_col) \o Found(g.postal_col),
           MatchesMessage(rules[i], g.is_country_region, DictGet(lookup.rule_to_country, rules[i], None),
                          DictGet(lookup.rule_to_postal_codes, rules[i], << >>)),
           Details(FALSE, g.actual_country, g.actual_postal, g.is_country_region, failed_rules, << >>)>>
    ELSE SearchRules(lookup, business_rule_col, rules, i + 1, g,
                     Append(failed_rules, FailedRule(rules[i], "postal", DictGet(lookup.rule_to_country, rules[i], None),
                                                     DictGet(lookup.rule_to_postal_codes, rules[i], << >>))),
                     Append(same_country_failures,
                            FailedRule(rules[i], "postal", DictGet(lookup.rule_to_country, rules[i], None),
                                       DictGet(lookup.rule_to_postal_codes, rules[i], << >>))))

\* the details of a return before the row is read, lines 123-129
UnreadDetails == Details(FALSE, None, None, FALSE, << >>, << >>)

find_matching_business_rule_by_geo(etof_row, business_rule_col, lookup) ==
    IF ~lookup.given THEN <<None, << >>, "No business rules lookup", UnreadDetails>>
    ELSE IF RulesForColumn(lookup.column_to_rules, business_rule_col) = << >>
    THEN <<None, << >>, "No rules defined for column '" \o business_rule_col \o "'", UnreadDetails>>
    ELSE IF IsOriginCol(business_rule_col)
    THEN SearchRules(lookup, business_rule_col,
                     RulesForColumn(lookup.column_to_rules, business_rule_col), 1,
                     GeoCells(etof_row, IsCountryRegionCol(business_rule_col), SearchOriginCountryCols,
                              SearchOriginPostalCols), << >>, << >>)
    ELSE IF IsDestinationCol(business_rule_col)
    THEN SearchRules(lookup, business_rule_col,
                     RulesForColumn(lookup.column_to_rules, business_rule_col), 1,
                     GeoCells(etof_row, IsCountryRegionCol(business_rule_col), SearchDestCountryCols,
                              SearchDestPostalCols), << >>, << >>)
    ELSE <<None, << >>, "Cannot determine origin/destination from column '" \o business_rule_col \o "'",
           UnreadDetails>>

(***************************************************************************)
(* validate_business_rule, lines 315-556.  A result is the tuple the       *)
(* function returns: four values, or three on line 383.                    *)
(***************************************************************************)
NamedOriginCountryCols == <<"Origin Country", "origin country", "OriginCountry", "ORIGIN_COUNTRY", "Ship Country",
                            "SHIP_COUNTRY">>

NamedOriginPostalCols == <<"Origin Postal Code", "origin postal code", "OriginPostalCode", "ORIGIN_POSTAL_CODE",
                           "Ship Postal", "SHIP_POST">>

NamedDestCountryCols == <<"Destination Country", "destination country", "DestinationCountry", "DESTINATION_COUNTRY",
                          "Cust Country", "CUST_COUNTRY">>

NamedDestPostalCols == <<"Destination Postal Code", "destination postal code", "DestinationPostalCode",
                         "DESTINATION_POSTAL_CODE", "Cust Postal", "CUST_POST">>

\* the first key whose name is the rule value or holds it, lines 361-367
\* and 371-377; None if there is none
RuleNamed(keys, rule_value_str) ==
    IF \E i \in 1..Len(keys) : Contains(Lower(Strip(keys[i])), Lower(rule_value_str))
    THEN keys[CHOOSE i \in 1..Len(keys) :
                 /\ Contains(Lower(Strip(keys[i])), Lower(rule_value_str))
                 /\ \A j \in 1..(i - 1) : ~Contains(Lower(Strip(keys[j])), Lower(rule_value_str))]
    ELSE None

\* rule_name of lines 359-380
FindRuleName(lookup, rule_value_str) ==
    IF RuleNamed(DictKeys(lookup.rule_to_country), rule_value_str) # None
    THEN RuleNamed(DictKeys(lookup.rule_to_country), rule_value_str)
    ELSE RuleNamed(DictKeys(lookup.rule_to_postal_codes), rule_value_str)

\* the country does not fail the validation, lines 473-490
NamedCountryPasses(expected_country, actual_country) ==
    ~Truthy(expected_country) \/ (actual_country # None /\ CountryIn(actual_country, expected_country))

\* the postal code does not fail the validation, lines 494-518: a missing
\* postal code is skipped
NamedPostalPasses(is_country_region, expected_postal_codes, actual_postal) ==
    \/ is_country_region
    \/ expected_postal_codes = << >>
    \/ actual_postal = None
    \/ PostalStarts(actual_postal, expected_postal_codes)

\* validated_columns of a validation that passed
NamedValidatedColumns(business_rule_col, g, expected_country, expected_postal_codes) ==
    <<business_rule_col>>
    \o (IF Truthy(expected_country) THEN Found(g.country_col) ELSE << >>)
    \o (IF ~g.is_country_region /\ expected_postal_codes # << >> /\ g.actual_postal # None
        THEN Found(g.postal_col) ELSE << >>)

ValidatedMessage(rule_name, is_country_region, expected_country, expected_postal_codes) ==
    IF is_country_region
    THEN "Business rule '" \o rule_name \o "' validated: Country=" \o Fmt(expected_country) \o " (Country Region rule)"
    ELSE "Business rule '" \o rule_name \o "' validated: Country=" \o Fmt(expected_country) \o ", Postal="
             \o ListRepr(expected_postal_codes)

\* lines 473-556 for the rule rule_name and the cells g of the row
ValidateNamed(business_rule_col, rule_name, g, expected_country, expected_postal_codes) ==
    IF /\ NamedCountryPasses(expected_country, g.actual_country)
       /\ NamedPostalPasses(g.is_country_region, expected_postal_codes, g.actual_postal)
    THEN <<TRUE, NamedValidatedColumns(business_rule_col, g, expected_country, expected_postal_codes),
           ValidatedMessage(rule_name, g.is_country_region, expected_country, expected_postal_codes), EmptyDetails>>
    ELSE <<FALSE, << >>, "Business rule '" \o rule_name \o "' validation failed",
           Details(FALSE, g.actual_country, g.actual_postal, FALSE,
                   <<FailedRule(rule_name, "validation", expected_country, expected_postal_codes)>>, << >>)>>

\* lines 355-556 for a rule value that is there
ValidateRuleValue(etof_row, business_rule_col, rule_value_str, rule_name, lookup) ==
    IF rule_name = None THEN <<FALSE, << >>, "No business rule found for '" \o rule_value_str \o "'">>
    ELSE IF IsOriginCol(business_rule_col)
    THEN ValidateNamed(business_rule_col, rule_name,
                       GeoCells(etof_row, IsCountryRegionCol(business_rule_col), NamedOriginCountryCols,
                                NamedOriginPostalCols),
                       DictGet(lookup.rule_to_country, rule_name, None),
                       DictGet(lookup.rule_to_postal_codes, rule_name, << >>))
    ELSE IF IsDestinationCol(business_rule_col)
    THEN ValidateNamed(business_rule_col, rule_name,
                       GeoCells(etof_row, IsCountryRegionCol(business_rule_col), NamedDestCountryCols,
                                NamedDestPostalCols),
                       DictGet(lookup.rule_to_country, rule_name, None),
                       DictGet(lookup.rule_to_postal_codes, rule_name, << >>))
    ELSE <<FALSE, << >>, "Cannot determine origin/destination from column '" \o business_rule_col \o "'",
           EmptyDetails>>

\* found_rule is not None, validated_cols, message, failure_details
FoundToValid(found) == <<found[1] # None, found[2], found[3], found[4]>>

validate_business_rule(etof_row, business_rule_col, rule_value, lookup) ==
    IF ~lookup.given THEN <<FALSE, << >>, "No business rules lookup", EmptyDetails>>
    ELSE IF rule_value = None \/ Lower(Strip(rule_value)) \in {"", "nan", "none"}
    THEN FoundToValid(find_matching_business_rule_by_geo(etof_row, business_rule_col, lookup))
    ELSE ValidateRuleValue(etof_row, business_rule_col, Strip(rule_value),
                           FindRuleName(lookup, Strip(rule_value)), lookup)

(***************************************************************************)
(* PRE-STEP of the loop body, lines 1303-1390: the business rule columns   *)
(* of the row are validated.                                               *)
(***************************************************************************)
\* br_col_found: the column itself when the row has it, else the first
\* column of the row with its normalised name, else None
BrColFound(columns, br_col) ==
    IF br_col \in Range(columns) THEN br_col
    ELSE IF \E i \in 1..Len(columns) : normalize_column_name(columns[i]) = normalize_column_name(br_col)
    THEN columns[CHOOSE i \in 1..Len(columns) :
                    /\ normalize_column_name(columns[i]) = normalize_column_name(br_col)
                    /\ \A j \in 1..(i - 1) : normalize_column_name(columns[j]) # normalize_column_name(br_col)]
    ELSE None

\* how an f-string prints a cell of the row: nan for an empty cell
FmtCell(v) == IF v = None THEN "nan" ELSE v

\* failure_msg of one entry of same_country_failures or failed_rules,
\* lines 1366-1387
FailureMessage(fail, details, br_col_name) ==
    IF fail.failure_type = "postal"
    THEN "Business rule '" \o fail.rule_name \o "' failed: Postal code '" \o FmtCell(details.actual_postal)
             \o "' does not start with any of " \o ListRepr(fail.expected_postal)
    ELSE IF fail.failure_type = "country"
    THEN "Business rule '" \o fail.rule_name \o "' failed: Country '" \o FmtCell(details.actual_country)
             \o "' does not match expected '" \o Fmt(fail.expected_country) \o "'"
             \o (IF details.is_country_region THEN ""
                 ELSE " (expected postal starting with " \o ListRepr(fail.expected_postal) \o ")")
    ELSE "Business rule '" \o fail.rule_name \o "' validation failed for column '" \o br_col_name \o "'"

RECURSIVE AppendNew(_, _)
\* every message appended unless the list has it already
AppendNew(list, messages) ==
    IF messages = << >> THEN list
    ELSE AppendNew(IF Head(messages) \in Range(list) THEN list ELSE Append(list, Head(messages)), Tail(messages))

\* the messages of a failed validation, lines 1355-1390
FailureMessages(details, br_col_name) ==
    IF details.falsy THEN << >>
    ELSE IF details.same_country_failures # << >>
    THEN [i \in 1..Len(details.same_country_failures) |->
             FailureMessage(details.same_country_failures[i], details, br_col_name)]
    ELSE [i \in 1..Len(details.failed_rules) |-> FailureMessage(details.failed_rules[i], details, br_col_name)]

\* d with the messages added to d[key], the key created when it is new
DictExtend(items, key, messages) ==
    IF \E i \in 1..Len(items) : items[i][1] = key
    THEN [i \in 1..Len(items) |-> IF items[i][1] = key THEN <<key, AppendNew(items[i][2], messages)>> ELSE items[i]]
    ELSE Append(items, <<key, AppendNew(<< >>, messages)>>)

\* the locals of the pre-step; raised is the exception the row has raised
NoRules == [raised |-> None, validated |-> {}, messages |-> << >>, passed |-> {}, failed |-> << >>]

\* lines 1335-1390 for the result of validate_business_rule on the column
\* called br_col_name
AfterValidation(acc, result, br_col_name) ==
    IF Len(result) # 4 THEN [acc EXCEPT !.raised = "ValueError"]
    ELSE IF result[1]
    THEN [acc EXCEPT !.validated = @ \cup {normalize_column_name(result[2][i]) : i \in 1..Len(result[2])},
                     !.messages = Append(@, "[Business Rule Applied] " \o result[3]),
                     !.passed = @ \cup {normalize_column_name(br_col_name)}]
    ELSE [acc EXCEPT !.failed = DictExtend(@, normalize_column_name(br_col_name),
                                           FailureMessages(result[4], br_col_name))]

\* lines 1318-1338 for the column br_col: the column and the cell found in
\* the row, and the validation of the cell
ValidateColumn(acc, row_etofs, columns, br_col_name, lookup) ==
    AfterValidation(acc,
                    validate_business_rule(row_etofs, br_col_name,
                                           IF br_col_name \in DOMAIN row_etofs THEN row_etofs[br_col_name] ELSE None,
                                           lookup),
                    br_col_name)

RECURSIVE PreStep(_, _, _, _, _)
\* the loop of lines 1317-1390 from business rule column i on; it ends when
\* a column raises
PreStep(acc, row_etofs, columns, lookup, i) ==
    IF i > Len(lookup.business_rule_columns) \/ acc.raised # None THEN acc
    ELSE PreStep(ValidateColumn(acc, row_etofs, columns,
                                IF BrColFound(columns, lookup.business_rule_columns[i]) # None
                                THEN BrColFound(columns, lookup.business_rule_columns[i])
                                ELSE lookup.business_rule_columns[i],
                                lookup),
                 row_etofs, columns, lookup, i + 1)

(***************************************************************************)
(* PASS 1 and PASS 2 of the summary, lines 2028-2121: the messages of the  *)
(* failed business rules.                                                  *)
(***************************************************************************)
\* any(side in col for col in business_rule_columns_passed)
SidePassed(passed, side) == \E col \in passed : Contains(col, side)

\* rule_type of a failed column, lines 2047-2049
RuleTypeOf(br_col_norm) ==
    IF Contains(br_col_norm, "countryregion") \/ Contains(br_col_norm, "country region") THEN "country_region"
    ELSE IF Contains(br_col_norm, "postalcode") \/ Contains(br_col_norm, "postal") THEN "postal_code_zone"
    ELSE "unknown"

\* is the failed column reported, lines 2041-2055
IsReported(br_col_norm, passed) ==
    /\ br_col_norm \notin passed
    /\ ~(Contains(br_col_norm, "origin") /\ SidePassed(passed, "origin"))
    /\ ~(Contains(br_col_norm, "destination") /\ SidePassed(passed, "destination"))

\* the reported failures of one failed column: message, side, rule type
FailuresOfColumn(br_col_norm, failure_msgs) ==
    [i \in 1..Len(failure_msgs) |->
        [msg |-> "[Business Rule Failed] " \o failure_msgs[i],
         side |-> IF Contains(br_col_norm, "origin") THEN "origin"
                  ELSE IF Contains(br_col_norm, "destination") THEN "destination" ELSE "none",
         rule_type |-> RuleTypeOf(br_col_norm)]]

\* the failures PASS 1 appends to the comment, in the order of the dict
ReportedFailures(passed, failed) ==
    Concat([i \in 1..Len(failed) |->
               IF IsReported(failed[i][1], passed) THEN FailuresOfColumn(failed[i][1], failed[i][2]) ELSE << >>])

\* has_origin_country_discrepancy and has_destination_country_discrepancy,
\* lines 2075-2093, for side "origin" or "destination"
HasGeoDiscrepancy(comments, side) ==
    \E i \in 1..Len(comments) :
        /\ ~StartsWith(Lower(comments[i]), "[business rule")
        /\ \/ Contains(Lower(comments[i]), side \o " country")
           \/ Contains(Lower(comments[i]), side \o "country")
           \/ Contains(Lower(comments[i]), side \o " postal")
           \/ /\ Contains(Lower(comments[i]), side)
              /\ Contains(Lower(comments[i]), "zone") \/ Contains(Lower(comments[i]), "region")

\* messages_to_remove, lines 2098-2114
MessagesToRemove(comments, failures) ==
    {failures[i].msg : i \in {j \in 1..Len(failures) :
        /\ failures[j].side # "none"
        /\ failures[j].rule_type = "country_region"
        /\ ~HasGeoDiscrepancy(comments, failures[j].side)}}

\* PASS 2 on the comments PASS 1 has left
WithoutRemoved(comments, failures) ==
    SelectSeq(comments, LAMBDA c : c \notin MessagesToRemove(comments, failures))

\* the comments after PASS 1 and PASS 2
WithFailures(comments, failures) ==
    WithoutRemoved(comments \o [i \in 1..Len(failures) |-> failures[i].msg], failures)

\* lines 2028-2121
WithRuleFailures(comments, passed, failed) == WithFailures(comments, ReportedFailures(passed, failed))

(***************************************************************************)
(* STEP 1 of the loop body: the country precheck, lines 1395-1512.         *)
(***************************************************************************)
EtofOriginVariations == <<"Origin Country", "origin country", "OriginCountry", "origincountrycode", "ORIGIN COUNTRY CODE">>

EtofDestVariations == <<"Destination Country", "destination country", "DestinationCountry", "destinationcountrycode",
                        "DESTINATION COUNTRY CODE">>

\* row_etofs.get(a, row_etofs.get(b, 'N/A')) as it prints in a comment
GetForComment(row_etofs, a, b) ==
    IF a \in DOMAIN row_etofs THEN Str(row_etofs[a])
    ELSE IF b \in DOMAIN row_etofs THEN Str(row_etofs[b]) ELSE "N/A"

OriginMissingComment(row_etofs) ==
    "Origin country '" \o GetForComment(row_etofs, "Origin Country", "origin country") \o "' is missing"

DestinationMissingComment(row_etofs) ==
    "Destination country '" \o GetForComment(row_etofs, "Destination Country", "destination country") \o "' is missing"

\* d.get(key, key)
GetOrSelf(map, key) == IF key \in DOMAIN map THEN map[key] ELSE key

\* the comments the precheck appends for a row; validated is
\* columns_validated_by_business_rules
CountryPrecheck(row_etofs, validated) ==
    LET ocol == rc_origin_col(rate_card_columns)
        dcol == rc_dest_col(rate_card_columns)
        etof_orig_col_found == FirstPresent(EtofOriginVariations, DOMAIN row_etofs)
        etof_dest_col_found == FirstPresent(EtofDestVariations, DOMAIN row_etofs)
        shipment_orig_country_norm == IF etof_orig_col_found = None THEN None ELSE Normalized(row_etofs[etof_orig_col_found])
        shipment_dest_country_norm == IF etof_dest_col_found = None THEN None ELSE Normalized(row_etofs[etof_dest_col_found])
        orig_matches == country_matches_rate_card(shipment_orig_country_norm, unique_rc_origins, origin_code_to_country)
        dest_matches == country_matches_rate_card(shipment_dest_country_norm, unique_rc_destinations, dest_code_to_country)
        origin_validated_by_br == normalize_column_name("Origin Country") \in validated
        dest_validated_by_br == normalize_column_name("Destination Country") \in validated
        combination == <<GetOrSelf(origin_code_to_country, shipment_orig_country_norm),
                         GetOrSelf(dest_code_to_country, shipment_dest_country_norm)>>
    IN  IF ocol = None /\ dcol = None THEN << >>
        ELSE IF etof_orig_col_found = None /\ etof_dest_col_found = None THEN << >>
        ELSE IF origin_validated_by_br /\ dest_validated_by_br THEN << >>
        ELSE IF origin_validated_by_br
             THEN IF dcol # None /\ shipment_dest_country_norm = None THEN <<"Destination country is missing">>
                  ELSE IF Truthy(shipment_dest_country_norm) /\ ~dest_matches THEN <<DestinationMissingComment(row_etofs)>>
                  ELSE << >>
        ELSE IF dest_validated_by_br
             THEN IF ocol # None /\ shipment_orig_country_norm = None THEN <<"Origin country is missing">>
                  ELSE IF Truthy(shipment_orig_country_norm) /\ ~orig_matches THEN <<OriginMissingComment(row_etofs)>>
                  ELSE << >>
        ELSE IF ocol # None /\ shipment_orig_country_norm = None THEN <<"Origin country is missing">>
        ELSE IF dcol # None /\ shipment_dest_country_norm = None THEN <<"Destination country is missing">>
        ELSE IF Truthy(shipment_orig_country_norm) /\ Truthy(shipment_dest_country_norm)
             THEN IF ~orig_matches /\ ~dest_matches THEN <<"Origin-Destination are missing">>
                  ELSE IF ~orig_matches THEN <<OriginMissingComment(row_etofs)>>
                  ELSE IF ~dest_matches THEN <<DestinationMissingComment(row_etofs)>>
                  ELSE << >>
        ELSE IF combination \notin unique_rc_orig_dest_combinations
             THEN <<"Origin-Destination country combination is missing">>
        ELSE << >>

NormIdle ==
    /\ norm_value = None
    /\ norm_result = None
    /\ norm_again = None
    /\ norm_pc = "idle"

CondIdle ==
    /\ cond_resmed_value = None
    /\ cond_rate_card_value = None
    /\ cond_token = None
    /\ cond_text = None
    /\ cond_result = FALSE
    /\ cond_pc = "idle"

RuleIdle ==
    /\ geo_row = << >>
    /\ geo_col = None
    /\ geo_value = None
    /\ geo_lookup = NoLookup
    /\ geo_result = << >>
    /\ geo_pc = "idle"

\* no function is called on its own
FunctionsIdle == NormIdle /\ CondIdle /\ RuleIdle

\* the business rules of the model: two postal code zones and a country
\* region, the zones in force for the postal code zone columns and the
\* region for the country region columns
BusinessRulesLookup ==
    [given |-> TRUE,
     rule_to_country |-> <<<<"US East", "US, CA">>, <<"DE Zone 26", "DE">>, <<"EXPORT_S", "BE,US">>>>,
     rule_to_postal_codes |-> <<<<"US East", <<"194", "19a">>>>, <<"DE Zone 26", <<"26">>>>>>,
     column_to_rules |-> <<<<"Origin Postal Code Zone", <<"DE Zone 26", "US East">>>>,
                           <<"Destination Postal Code Zone", <<"DE Zone 26">>>>,
                           <<"Origin Country Region", <<"EXPORT_S">>>>,
                           <<"Destination Country Region", <<"EXPORT_S">>>>>>,
     business_rule_columns |-> <<"Origin Postal Code Zone", "Destination Country Region">>]

\* the rate card of the runs with business rules: the column of the
\* origin postal code zone holds the name of a rule
RuleRateCardColumns == RateCardColumns \o <<"Origin Postal Code Zone">>

RuleLane(lane, zone) == lane @@ ("Origin Postal Code Zone" :> zone)

RuleLanes ==
    { RuleLane(Lane("US", "DE", "194", "04123", "40HC", "FOB", "AIR", "01.01.2025", "31.12.2025", "AGR-1"), "US East"),
      RuleLane(Lane("DE", "DE", "26", "04123", "40HC", "FOB", "AIR", "01.01.2025", "31.12.2025", "AGR-4"), "DE Zone 26") }

\* longest freely drawn rate table of the runs with business rules
MaxRuleLanes == 2

RuleTables ==
    UNION {[1..n -> RuleLanes] : n \in 0..MaxRuleLanes}
    \cup UNION {{Repeat(a, n) : a \in RuleLanes} : n \in 1..MaxLanes}

RuleShipmentColumns == FullColumns \o <<"Origin Postal Code Zone">>

RuleShipment(oc, dc, opc, svc, zone) ==
    Shipment(FullColumns, oc, dc, opc, "04123", "40HC", "FOB", svc, "20250615") @@ ("Origin Postal Code Zone" :> zone)

RuleShipments ==
    { RuleShipment("US", "DE", "19454", "Air", "US East"),
      RuleShipment("US", "DE", "19454", "Air", None),
      RuleShipment("US", "DE", "19454", "Sea", "Zone 99"),
      RuleShipment("US", "DE", "99999", "Air", "US East"),
      RuleShipment("US", "DE", "99999", "Sea", None),
      RuleShipment("CA", "DE", "19454", "Air", "US East"),
      RuleShipment("US", "BE", "19454", "Air", "US East"),
      RuleShipment("DE", "DE", "26123", "Sea", "nan") }

\* a shipment of the runs with business rules whose destination postal code
\* is in no lane
OtherPostalShipment ==
    Shipment(FullColumns, "US", "DE", "19454", "99999", "40HC", "FOB", "Air", "20250615")
        @@ ("Origin Postal Code Zone" :> "US East")

\* value of the comment cell of a row the loop has not written
NoComment == << >>

(***************************************************************************)
(* The state machine: Init is the state on entry to the row loop (line     *)
(* 1298), one action per stage of the loop body.                           *)
(***************************************************************************)
\* the start of run_matching for given tables: the values lines 1100-1296
\* compute from the tables once, and the locals of the loop
LoopStart ==
    /\ etofs_columns = ColumnsOfRow(df_etofs[1])
    /\ business_rules = NoRules
    /\ common_columns = find_common_columns(etofs_columns, rate_card_columns)
    /\ common_columns_normalized = CommonColumnsNormalized(common_columns)
    /\ common_etofs_cols_original = CommonColsOriginal(etofs_columns, common_columns)
    /\ common_rate_card_cols_original = CommonColsOriginal(rate_card_columns, common_columns)
    /\ unique_rc_origins = UniqueRcCountries(df_filtered_rate_card, rc_origin_col(rate_card_columns))
    /\ unique_rc_destinations = UniqueRcCountries(df_filtered_rate_card, rc_dest_col(rate_card_columns))
    /\ origin_code_to_country = CodeToCountry(conditions_dict, rc_origin_col(rate_card_columns))
    /\ dest_code_to_country = CodeToCountry(conditions_dict, rc_dest_col(rate_card_columns))
    /\ unique_rc_orig_dest_combinations =
           OrigDestCombinations(df_filtered_rate_card, rc_origin_col(rate_card_columns), rc_dest_col(rate_card_columns))
    /\ pattern_input = << >>
    /\ pattern_comments = << >>
    /\ pattern_pc = "idle"
    /\ FunctionsIdle
    /\ index_etofs = 1
    /\ pc = "run_matching"
    /\ comments_for_current_etofs_row = << >>
    /\ best_matching_rate_card_rows = << >>
    /\ too_many_matches = FALSE
    /\ carrier_agreement_value = None
    /\ comment = [r \in 1..Len(df_etofs) |-> NoComment]
    /\ rate_card_out = [r \in 1..Len(df_etofs) |-> None]
    /\ stages = [r \in 1..Len(df_etofs) |-> << >>]

Init ==
    /\ \/ /\ df_filtered_rate_card \in RateTables
          /\ rate_card_columns = RateCardColumns
          /\ business_rules_lookup = NoLookup
          /\ \E c \in Cases :
                /\ df_etofs = <<c.row>>
                /\ conditions_dict = c.conditions
       \/ /\ df_filtered_rate_card \in RuleTables
          /\ rate_card_columns = RuleRateCardColumns
          /\ business_rules_lookup = BusinessRulesLookup
          /\ df_etofs \in {<<s>> : s \in RuleShipments \cup {OtherPostalShipment}}
          /\ conditions_dict = NoConditions
    /\ LoopStart

\* the batches of the runs with several shipments: a shipment alone, and a
\* shipment before and after another one
Batches ==
    {<<a>> : a \in RuleShipments} \cup {<<b, a, b>> : a \in RuleShipments, b \in RuleShipments}

\* the rate tables of the runs with several shipments
BatchTables == {t \in RuleTables : Len(t) \in 1..MaxRuleLanes}

\* match_shipments_with_rate_card called on a batch of shipments
BatchInit ==
    /\ df_filtered_rate_card \in BatchTables
    /\ rate_card_columns = RuleRateCardColumns
    /\ business_rules_lookup = BusinessRulesLookup
    /\ df_etofs \in Batches
    /\ conditions_dict = NoConditions
    /\ LoopStart


row_etofs == df_etofs[index_etofs]

\* "df_etofs.loc[index_etofs, 'comment'] = comment_text; continue"
WriteCommentAndContinue(lines) ==
    /\ comment' = [comment EXCEPT ![index_etofs] = lines]
    /\ index_etofs' = index_etofs + 1
    /\ pc' = "precheck"

Ran(stage) == stages' = [stages EXCEPT ![index_etofs] = Append(@, stage)]

\* run_matching, lines 2347-2362: without common columns it prints an error
\* and returns None, otherwise it calls match_shipments_with_rate_card; the
\* number of rows of the rate table is not looked at
RunMatching ==
    /\ pc = "run_matching"
    /\ pc' = IF common_columns = << >> THEN "aborted" ELSE "precheck"
    /\ UNCHANGED <<inputs, pattern, functions, index_etofs, comments_for_current_etofs_row,
                   best_matching_rate_card_rows, too_many_matches, carrier_agreement_value, business_rules,
                   comment, rate_card_out, stages>>

\* GeoPrecheck going on to lane scoring whatever the precheck found
GeoPrecheckNoStop ==
    /\ pc = "precheck"
    /\ index_etofs <= Len(df_etofs)
    /\ Ran("precheck")
    /\ carrier_agreement_value' = None
    /\ business_rules' = PreStep(NoRules, row_etofs, etofs_columns, business_rules_lookup, 1)
    /\ IF business_rules'.raised # None
       THEN /\ comments_for_current_etofs_row' = << >>
            /\ pc' = "raised"
       ELSE /\ comments_for_current_etofs_row' = CountryPrecheck(row_etofs, business_rules'.validated)
            /\ pc' = "score"
    /\ UNCHANGED <<comment, index_etofs>>
    /\ UNCHANGED <<inputs, pattern, functions, best_matching_rate_card_rows, too_many_matches, rate_card_out>>

\* lines 1300-1520: reset of the row's locals, the pre-step of the business
\* rules and the country precheck; the ValueError of the unpacking on line
\* 1335 is caught nowhere and ends the loop
GeoPrecheck ==
    /\ pc = "precheck"
    /\ index_etofs <= Len(df_etofs)
    /\ Ran("precheck")
    /\ carrier_agreement_value' = None
    /\ business_rules' = PreStep(NoRules, row_etofs, etofs_columns, business_rules_lookup, 1)
    /\ IF business_rules'.raised # None
       THEN /\ comments_for_current_etofs_row' = << >>
            /\ pc' = "raised"
            /\ UNCHANGED <<comment, index_etofs>>
       ELSE /\ comments_for_current_etofs_row' = CountryPrecheck(row_etofs, business_rules'.validated)
            /\ IF comments_for_current_etofs_row' # << >>
               THEN WriteCommentAndContinue(comments_for_current_etofs_row')
               ELSE /\ pc' = "score"
                    /\ UNCHANGED <<comment, index_etofs>>
    /\ UNCHANGED <<inputs, pattern, functions, best_matching_rate_card_rows, too_many_matches, rate_card_out>>

\* first_best_match.get(carrier_agreement_col) of lines 1601-1603 and
\* 1728-1730: None when there is no such column or no best match
FirstCarrierAgreement(best) ==
    LET cac == carrier_agreement_col(rate_card_columns)
    IN  IF cac # None /\ Len(best) > 0 THEN best[1].rate_card_row[cac] ELSE None

\* lines 1551-1617: lane scoring, the tie flag, the carrier agreement of the
\* first best match, the no-match outcome
ScoreLanes ==
    /\ pc = "score"
    /\ Ran("score")
    /\ best_matching_rate_card_rows' = BestMatches(row_etofs)
    /\ too_many_matches' = (Len(best_matching_rate_card_rows') > TooManyMatchesThreshold)
    /\ carrier_agreement_value' = FirstCarrierAgreement(best_matching_rate_card_rows')
    /\ rate_card_out' = IF Truthy(carrier_agreement_value')
                        THEN [rate_card_out EXCEPT ![index_etofs] = carrier_agreement_value']
                        ELSE rate_card_out
    /\ IF Len(best_matching_rate_card_rows') = 0
       THEN /\ comments_for_current_etofs_row' =
                   IF comments_for_current_etofs_row = << >>
                   THEN <<"No matching rate card entries found">> ELSE comments_for_current_etofs_row
            /\ WriteCommentAndContinue(comments_for_current_etofs_row')
       ELSE /\ pc' = "date"
            /\ UNCHANGED <<comments_for_current_etofs_row, comment, index_etofs>>
    /\ UNCHANGED <<inputs, pattern, functions, business_rules>>

\* ValidMatches that never drops the first best match
ValidMatchesKeepFirst(best, date_value) ==
    LET kept == SelectSeq(best, LAMBDA m : is_date_valid(date_value, m.rate_card_row, rate_card_columns))
    IN  IF kept = << >> /\ best # << >> THEN <<best[1]>> ELSE kept

\* valid_matches, lines 1650-1719
ValidMatches(best, date_value) ==
    SelectSeq(best, LAMBDA m : is_date_valid(date_value, m.rate_card_row, rate_card_columns))

\* carrier_agreement_value after lines 1728-1733
UpdatedCarrierAgreement(valid_matches, current) ==
    LET new_carrier_agreement == FirstCarrierAgreement(valid_matches)
    IN  IF Truthy(new_carrier_agreement) /\ new_carrier_agreement # current THEN new_carrier_agreement ELSE current

\* lines 1647-1746: the validity-date filter
DateFilter ==
    /\ pc = "date"
    /\ Ran("date")
    /\ IF DateCheckApplies(row_etofs, rate_card_columns)
       THEN /\ best_matching_rate_card_rows' = ValidMatches(best_matching_rate_card_rows, row_etofs[date_col(row_etofs)])
            /\ carrier_agreement_value' = UpdatedCarrierAgreement(best_matching_rate_card_rows', carrier_agreement_value)
            /\ rate_card_out' = IF carrier_agreement_value' # carrier_agreement_value
                                THEN [rate_card_out EXCEPT ![index_etofs] = carrier_agreement_value']
                                ELSE rate_card_out
            /\ IF Len(best_matching_rate_card_rows') = 0 /\ Len(best_matching_rate_card_rows) > 0
               THEN /\ comments_for_current_etofs_row' =
                           Append(comments_for_current_etofs_row,
                                  "Date '" \o Str(row_etofs[date_col(row_etofs)])
                                      \o "' is outside valid date range for all matching rate card entries")
                    /\ WriteCommentAndContinue(comments_for_current_etofs_row')
               ELSE /\ pc' = "discrepancies"
                    /\ UNCHANGED <<comments_for_current_etofs_row, comment, index_etofs>>
       ELSE /\ pc' = "discrepancies"
            /\ UNCHANGED <<best_matching_rate_card_rows, carrier_agreement_value, rate_card_out,
                           comments_for_current_etofs_row, comment, index_etofs>>
    /\ UNCHANGED <<inputs, pattern, functions, business_rules, too_many_matches>>

\* business_rules_lookup.get('business_rule_columns', set()), line 1911
BusinessRuleColumns ==
    {business_rules_lookup.business_rule_columns[i] : i \in 1..Len(business_rules_lookup.business_rule_columns)}

RECURSIVE WithDiscrepancies(_, _)
\* the loop of lines 1770-1943 over the best matches
WithDiscrepancies(best, row) ==
    IF best = << >> THEN << >>
    ELSE <<[Head(best) EXCEPT !.discrepancies = DiscrepanciesOf(row, Head(best).rate_card_row, business_rules.validated,
                                                                   BusinessRuleColumns)]>>
             \o WithDiscrepancies(Tail(best), row)

\* lines 1748-1943: the discrepancies of every best match
IdentifyDiscrepancies ==
    /\ pc = "discrepancies"
    /\ Ran("discrepancies")
    /\ comments_for_current_etofs_row' = comments_for_current_etofs_row \o business_rules.messages
    /\ best_matching_rate_card_rows' = WithDiscrepancies(best_matching_rate_card_rows, row_etofs)
    /\ pc' = "summary"
    /\ UNCHANGED <<inputs, pattern, functions, business_rules, index_etofs, too_many_matches,
                   carrier_agreement_value, comment, rate_card_out>>

\* lines 1945-2131: the comment of the row
Summarize ==
    /\ pc = "summary"
    /\ Ran("summary")
    /\ comments_for_current_etofs_row' =
           WithRuleFailures(SummaryComments(comments_for_current_etofs_row, best_matching_rate_card_rows,
                                            too_many_matches),
                            business_rules.passed, business_rules.failed)
    /\ WriteCommentAndContinue(IF comments_for_current_etofs_row' # << >>
                               THEN comments_for_current_etofs_row' ELSE <<"No discrepancies found">>)
    /\ UNCHANGED <<inputs, pattern, functions, business_rules, best_matching_rate_card_rows, too_many_matches, carrier_agreement_value, rate_card_out>>

\* line 2133: return df_etofs
Return ==
    /\ pc = "precheck"
    /\ index_etofs > Len(df_etofs)
    /\ pc' = "done"
    /\ UNCHANGED <<inputs, pattern, functions, business_rules, index_etofs, comments_for_current_etofs_row, best_matching_rate_card_rows,
                   too_many_matches, carrier_agreement_value, business_rules, comment, rate_card_out, stages>>

Next == RunMatching \/ GeoPrecheck \/ ScoreLanes \/ DateFilter \/ IdentifyDiscrepancies \/ Summarize \/ Return

Spec == Init /\ [][Next]_vars

\* the loop on batches of several shipments
BatchSpec == BatchInit /\ [][Next]_vars

(***************************************************************************)
(* The pattern branch on its own: the pooled discrepancies are drawn from  *)
(* a bounded set and the branch of lines 1950-1984 is applied to them.     *)
(***************************************************************************)
PatternColumns == {"Origin Postal Code", "Equipment", "Service", "Incoterm"}

\* longest pooled discrepancy list
MaxPooled == 10

\* the j-th pooled discrepancy of a column
PooledItem(column, j) == Discrepancy(column, "s" \o NatToStr(j), "r" \o NatToStr(j), None, "")

\* counts[i] discrepancies of cols[i], column after column
Blocks(cols, counts) == Concat([i \in 1..Len(cols) |-> [j \in 1..counts[i] |-> PooledItem(cols[i], j)]])

RECURSIVE Sum(_)
Sum(counts) == IF counts = << >> THEN 0 ELSE Head(counts) + Sum(Tail(counts))

PooledLists ==
    UNION {{Blocks(cols, counts) :
              cols \in {c \in [1..m -> PatternColumns] : \A i \in 1..m : \A j \in 1..m : c[i] = c[j] => i = j},
              counts \in {n \in [1..m -> 1..MaxPooled] : Sum(n) <= MaxPooled}} :
           m \in 1..Cardinality(PatternColumns)}

\* the number of best matches the pooled discrepancies come from
PatternLanes == TooManyMatchesThreshold + 1

PatternInit ==
    /\ pattern_input \in PooledLists
    /\ pattern_comments = << >>
    /\ pattern_pc = "analyze"
    /\ FunctionsIdle
    /\ df_etofs = << >>
    /\ etofs_columns = FullColumns
    /\ df_filtered_rate_card = << >>
    /\ rate_card_columns = RateCardColumns
    /\ conditions_dict = NoConditions
    /\ business_rules_lookup = NoLookup
    /\ business_rules = NoRules
    /\ common_columns = << >>
    /\ common_columns_normalized = << >>
    /\ common_etofs_cols_original = << >>
    /\ common_rate_card_cols_original = << >>
    /\ unique_rc_origins = {}
    /\ unique_rc_destinations = {}
    /\ origin_code_to_country = << >>
    /\ dest_code_to_country = << >>
    /\ unique_rc_orig_dest_combinations = {}
    /\ index_etofs = 1
    /\ pc = "done"
    /\ comments_for_current_etofs_row = << >>
    /\ best_matching_rate_card_rows = << >>
    /\ too_many_matches = TRUE
    /\ carrier_agreement_value = None
    /\ comment = << >>
    /\ rate_card_out = << >>
    /\ stages = << >>

\* lines 1957-1984
AnalyzePatterns ==
    /\ pattern_pc = "analyze"
    /\ pattern_comments' = PatternCommentsOf(pattern_input, PatternLanes)
    /\ pattern_pc' = "done"
    /\ UNCHANGED <<inputs, functions, pattern_input, index_etofs, pc, comments_for_current_etofs_row,
                   best_matching_rate_card_rows, too_many_matches, carrier_agreement_value, business_rules,
                   comment, rate_card_out, stages>>

PatternNext == AnalyzePatterns

PatternSpec == PatternInit /\ [][PatternNext]_vars

(***************************************************************************)
(* The functions called on their own: the arguments are drawn from a       *)
(* bounded set and the function is applied to them.  The row loop and the  *)
(* pattern branch stand still.                                             *)
(***************************************************************************)
LoopIdle ==
    /\ df_etofs = << >>
    /\ etofs_columns = FullColumns
    /\ df_filtered_rate_card = << >>
    /\ rate_card_columns = RateCardColumns
    /\ conditions_dict = NoConditions
    /\ business_rules_lookup = NoLookup
    /\ business_rules = NoRules
    /\ common_columns = << >>
    /\ common_columns_normalized = << >>
    /\ common_etofs_cols_original = << >>
    /\ common_rate_card_cols_original = << >>
    /\ unique_rc_origins = {}
    /\ unique_rc_destinations = {}
    /\ origin_code_to_country = << >>
    /\ dest_code_to_country = << >>
    /\ unique_rc_orig_dest_combinations = {}
    /\ index_etofs = 1
    /\ pc = "done"
    /\ comments_for_current_etofs_row = << >>
    /\ best_matching_rate_card_rows = << >>
    /\ too_many_matches = FALSE
    /\ carrier_agreement_value = None
    /\ comment = << >>
    /\ rate_card_out = << >>
    /\ stages = << >>
    /\ pattern_input = << >>
    /\ pattern_comments = << >>
    /\ pattern_pc = "idle"

loop == <<inputs, pattern, index_etofs, pc, comments_for_current_etofs_row, best_matching_rate_card_rows,
          too_many_matches, carrier_agreement_value, business_rules, comment, rate_card_out, stages>>

\* the cell texts normalize_value is called on: a head, a body and a tail
NormHeads == {"", " ", "0", "00", "-", "+"}

NormBodies == {"", "7719", "4123", "0", "1", "1 e", "12_3", "nan", "null", "NULL", "inf", "Ab_C d", ".5", "123.45"}

NormTails == {"", ".0", " .0", "e3", "e999", "e-5", "0", " "}

NormValues == {None} \cup {h \o b \o t : h \in NormHeads, b \in NormBodies, t \in NormTails}

NormInit ==
    /\ LoopIdle
    /\ CondIdle
    /\ RuleIdle
    /\ norm_value \in NormValues
    /\ norm_result = None
    /\ norm_again = None
    /\ norm_pc = "call"

\* normalize_value(norm_value), and normalize_value of what it returned
Normalize ==
    /\ norm_pc = "call"
    /\ norm_result' = normalize_value(norm_value)
    /\ norm_again' = IF norm_result' \in {None, OverflowError, Inexact} THEN norm_result'
                     ELSE normalize_value(norm_result')
    /\ norm_pc' = "done"
    /\ UNCHANGED <<loop, cond, geo, norm_value>>

NormNext == Normalize

NormSpec == NormInit /\ [][NormNext]_vars

\* the rule texts value_satisfies_condition is called on:
\* [ordinal] token ": " logic
CondOrdinals == {"", "1. ", "12."}

CondTokens == {"NAC", "FAK", "Long Beach"}

CondLogics == {"RATE_TYPE is empty in any item", "does not contain FAK in any item", "does not equal FAK",
               "contains AC", "equals NAC,LGB", "equal to lgb",
               "RATE_TYPE is empty in any item and does not contain FAK in any item",
               "does not equal to FAK,NAC"}

CondRateCardValues == {None, "", "NAC", "nac", "FAK", "OTHER", "Long Beach", "long beach", "LongBeach"}

CondResmedValues == {None, "", "NAC", "FAK", "lgb", "nan"}

CondInit ==
    /\ LoopIdle
    /\ NormIdle
    /\ RuleIdle
    /\ cond_resmed_value \in CondResmedValues
    /\ cond_rate_card_value \in CondRateCardValues
    /\ cond_token \in CondTokens
    /\ \E ordinal \in CondOrdinals : \E logic \in CondLogics : cond_text = ordinal \o cond_token \o ": " \o logic
    /\ cond_result = FALSE
    /\ cond_pc = "call"

EvaluateCondition ==
    /\ cond_pc = "call"
    /\ cond_result' = value_satisfies_condition(cond_resmed_value, cond_rate_card_value, cond_text)
    /\ cond_pc' = "done"
    /\ UNCHANGED <<loop, norm, geo, cond_resmed_value, cond_rate_card_value, cond_token, cond_text>>

CondNext == EvaluateCondition

CondSpec == CondInit /\ [][CondNext]_vars

\* business rules in which the name of one rule contains the name of a
\* later one
OverlappingRulesLookup ==
    [given |-> TRUE,
     rule_to_country |-> <<<<"US East Coast", "BR">>, <<"US East", "US, CA">>, <<"EXPORT_S", "BE,US">>>>,
     rule_to_postal_codes |-> <<<<"US East Coast", <<"99">>>>, <<"US East", <<"194", "19a">>>>,
                                <<"DE Zone 26", <<"26">>>>>>,
     column_to_rules |-> <<<<"Origin Postal Code Zone", <<"US East Coast", "US East", "DE Zone 26">>>>,
                           <<"Destination Postal Code Zone", <<"DE Zone 26">>>>,
                           <<"Origin Country Region", <<"EXPORT_S">>>>,
                           <<"Destination Country Region", <<"EXPORT_S">>>>>>,
     business_rule_columns |-> <<"Origin Postal Code Zone", "Destination Country Region">>]

RuleColumns == {"Origin Postal Code Zone", "Destination Postal Code Zone", "Origin Country Region",
                "Destination Country Region"}

RuleValues == {None, "", "nan", "US East", "us east ", "DE Zone 26", "Zone", "EXPORT_S", "Zone 99"}

RuleCountries == {None, "US", " us", "DE", "BR"}

RulePostals == {None, "19454", "19A21", "26123", "99999"}

\* a row with the same country and postal code on both sides; without the
\* postal code columns when has_postal is FALSE
GeoRow(country, postal, has_postal) ==
    [c \in {"Origin Country", "Destination Country"}
           \cup (IF has_postal THEN {"Origin Postal Code", "Destination Postal Code"} ELSE {}) |->
        IF c \in {"Origin Country", "Destination Country"} THEN country ELSE postal]

RuleInit ==
    /\ LoopIdle
    /\ NormIdle
    /\ CondIdle
    /\ geo_row \in {GeoRow(c, p, TRUE) : c \in RuleCountries, p \in RulePostals}
                    \cup {GeoRow(c, None, FALSE) : c \in RuleCountries}
    /\ geo_col \in RuleColumns
    /\ geo_value \in RuleValues
    /\ geo_lookup \in {BusinessRulesLookup, OverlappingRulesLookup, NoLookup}
    /\ geo_result = << >>
    /\ geo_pc = "call"

ValidateBusinessRule ==
    /\ geo_pc = "call"
    /\ geo_result' = validate_business_rule(geo_row, geo_col, geo_value, geo_lookup)
    /\ geo_pc' = "done"
    /\ UNCHANGED <<loop, norm, cond, geo_row, geo_col, geo_value, geo_lookup>>

RuleNext == ValidateBusinessRule

RuleSpec == RuleInit /\ [][RuleNext]_vars

(***************************************************************************)
(* The claims.  A row's scoring is observed in the state right after it    *)
(* (pc = "date"); a row's final comment after the loop (pc = "done").  The  *)
(* table of shipments holds one row, df_etofs[1].                          *)
(***************************************************************************)
\* the score of lane k against the current row
ScoreOf(k) == current_matches(df_etofs[1], df_filtered_rate_card[k])

Lanes == 1..Len(df_filtered_rate_card)

MaxScoreLanes == {k \in Lanes : \A j \in Lanes : ScoreOf(j) <= ScoreOf(k)}

\* the rate-table positions of the candidates, in candidate order
CandidateLanes == [i \in 1..Len(best_matching_rate_card_rows) |-> best_matching_rate_card_rows[i].lane]

StrictlyIncreasing(seq) == \A i \in 1..(Len(seq) - 1) : seq[i] < seq[i + 1]

\* C1: when some lane scores above 0, the candidate list right after lane
\* scoring holds every lane of maximal score and no other lane, each once,
\* in rate-table order.
C1_MaximalSetKept ==
    (pc = "date" /\ \E k \in Lanes : ScoreOf(k) > 0) =>
        /\ Range(CandidateLanes) = MaxScoreLanes
        /\ StrictlyIncreasing(CandidateLanes)
        /\ \A i \in 1..Len(best_matching_rate_card_rows) :
              best_matching_rate_card_rows[i].rate_card_row = df_filtered_rate_card[CandidateLanes[i]]

\* C1 witness: scoring kept two tied lanes of positive maximal score that
\* have a lower-scoring lane between them in the rate table.
C1_Witness ==
    /\ pc = "date"
    /\ Len(best_matching_rate_card_rows) >= 2
    /\ \E k \in Lanes : ScoreOf(k) > 0
    /\ \E j \in Lanes : /\ CandidateLanes[1] < j /\ j < CandidateLanes[2]
                         /\ ScoreOf(j) < ScoreOf(CandidateLanes[1])

PassedPrecheck == "score" \in Range(stages[1])

\* C2: a shipment that passed the precheck and scores 0 on every lane (or
\* meets an empty table) ends with no candidate, the comment 'No matching
\* rate card entries found', and neither the date filter nor the
\* discrepancy computation run for it.
C2_ZeroMatchOutcome ==
    (pc = "done" /\ PassedPrecheck /\ \A k \in Lanes : ScoreOf(k) = 0) =>
        /\ best_matching_rate_card_rows = << >>
        /\ comment[1] = <<"No matching rate card entries found">>
        /\ stages[1] = <<"precheck", "score">>

\* the shipment date as a calendar date, NaT when missing or unparseable
ShipDate ==
    IF "SHIP_DATE" \in DOMAIN df_etofs[1] /\ df_etofs[1]["SHIP_DATE"] # None
    THEN ParseShipDate(df_etofs[1]["SHIP_DATE"]) ELSE NaT

\* all three dates parse and the shipment date lies outside the lane's bounds
OutOfRange(rate_card_row) ==
    LET validFrom == ParseLaneDate(rate_card_row["Valid from"])
        validTo   == ParseLaneDate(rate_card_row["Valid to"])
    IN  /\ ShipDate # NaT /\ validFrom # NaT /\ validTo # NaT
        /\ (ShipDate < validFrom \/ ShipDate > validTo)

\* C3: the date filter removes a candidate iff the shipment date and both
\* bounds of the lane parse and the date lies strictly outside the bounds;
\* the survivors keep their order; while a candidate survives, the filter
\* adds no line to the comment.
C3_DateFilter ==
    [][pc = "date" =>
          /\ Range(best_matching_rate_card_rows') =
                 {m \in Range(best_matching_rate_card_rows) : ~OutOfRange(m.rate_card_row)}
          /\ \A i \in 1..(Len(best_matching_rate_card_rows') - 1) :
                 best_matching_rate_card_rows'[i].lane < best_matching_rate_card_rows'[i + 1].lane
          /\ (\E i \in 1..Len(best_matching_rate_card_rows) :
                  ~OutOfRange(best_matching_rate_card_rows[i].rate_card_row)) =>
                 /\ comments_for_current_etofs_row' = comments_for_current_etofs_row
                 /\ comment' = comment
                 /\ pc' = "discrepancies"]_vars

\* C3 witness: the filter ran, dropped a lane of maximal score and kept a
\* candidate whose valid_from is the shipment date, beside one whose
\* valid_from does not parse.
C3_Witness ==
    /\ pc = "discrepancies"
    /\ \E k \in Lanes : ScoreOf(k) > 0
    /\ MaxScoreLanes \ Range(CandidateLanes) # {}
    /\ \E i \in 1..Len(best_matching_rate_card_rows) :
          ShipDate = ParseLaneDate(best_matching_rate_card_rows[i].rate_card_row["Valid from"])
    /\ \E i \in 1..Len(best_matching_rate_card_rows) :
          ParseLaneDate(best_matching_rate_card_rows[i].rate_card_row["Valid from"]) = NaT

IsMatchHeader(line) == StartsWith(line, "Discrepancies for Match ")

MatchHeadersOf(lines) == {i \in 1..Len(lines) : IsMatchHeader(lines[i])}

\* C4: a row whose candidates were all removed by the date filter ends with
\* the one date-range line as its comment and runs neither the discrepancy
\* computation nor the summary; otherwise the discrepancies are those of
\* the survivors: every candidate left is inside its lane's dates (or has a
\* date that does not parse) and the comment has at most one block a survivor.
C4_AllRemovedOrSurvivors ==
    (pc = "done" /\ "date" \in Range(stages[1])) =>
        IF best_matching_rate_card_rows = << >>
        THEN /\ comment[1] = <<"Date '" \o df_etofs[1]["SHIP_DATE"]
                                  \o "' is outside valid date range for all matching rate card entries">>
             /\ stages[1] = <<"precheck", "score", "date">>
        ELSE /\ stages[1] = <<"precheck", "score", "date", "discrepancies", "summary">>
             /\ \A i \in 1..Len(best_matching_rate_card_rows) :
                    ~OutOfRange(best_matching_rate_card_rows[i].rate_card_row)
             /\ Cardinality(MatchHeadersOf(comment[1])) <= Len(best_matching_rate_card_rows)

\* C4 witness: a row with a lane of positive score whose candidates were all
\* removed by the date filter.
C4_Witness ==
    /\ pc = "done"
    /\ stages[1] = <<"precheck", "score", "date">>
    /\ best_matching_rate_card_rows = << >>
    /\ \E k \in Lanes : ScoreOf(k) > 0

StageOrder == <<"precheck", "score", "date", "discrepancies", "summary">>

\* C5: the stages of a row run in pipeline order starting with the country
\* precheck, and a row whose precheck finds a failure stops there: its
\* comment is the precheck's lines, no lane is scored, no carrier agreement
\* is set, and no later stage runs.
C5_PrecheckFirst ==
    /\ Len(stages[1]) <= Len(StageOrder)
    /\ stages[1] = SubSeq(StageOrder, 1, Len(stages[1]))
    /\ (pc = "done" /\ CountryPrecheck(df_etofs[1], business_rules.validated) # << >>) =>
          /\ stages[1] = <<"precheck">>
          /\ comment[1] = CountryPrecheck(df_etofs[1], business_rules.validated)
          /\ best_matching_rate_card_rows = << >>
          /\ carrier_agreement_value = None
          /\ rate_card_out[1] = None

\* C5 witness: a finished row whose precheck failed although a lane of the
\* table scores above 0 against it.
C5_Witness ==
    /\ pc = "done"
    /\ CountryPrecheck(df_etofs[1], business_rules.validated) # << >>
    /\ \E k \in Lanes : ScoreOf(k) > 0

\* the shipment's country in column col, normalized; None when the row has
\* no such column
ShipmentCountry(col) == IF col \in DOMAIN df_etofs[1] THEN Normalized(df_etofs[1][col]) ELSE None

\* country is a rate-table country, or a code the conditions map to one
KnownCountry(country, rc_countries, code_to_country) ==
    \/ country \in rc_countries
    \/ country \in DOMAIN code_to_country /\ code_to_country[country] \in rc_countries

\* the countries a shipment value may stand for: itself, and the country it
\* is a code of
CountriesMeant(country, code_to_country) ==
    {country} \cup (IF country \in DOMAIN code_to_country THEN {code_to_country[country]} ELSE {})

\* some lane of the rate table goes from the shipment's origin country to
\* its destination country
PairInSomeLane ==
    \E k \in Lanes :
        /\ Normalized(df_filtered_rate_card[k]["Origin Country"])
               \in CountriesMeant(ShipmentCountry("Origin Country"), origin_code_to_country)
        /\ Normalized(df_filtered_rate_card[k]["Destination Country"])
               \in CountriesMeant(ShipmentCountry("Destination Country"), dest_code_to_country)

\* C6: a shipment whose origin and destination country are both present and
\* each known to the rate table (directly or through a code mapping) fails
\* the precheck with the combination-missing line and is not scored when no
\* lane has its (origin, destination) pair, and passes the precheck when
\* some lane has it.
C6_CombinationCheck ==
    (/\ pc = "done"
     /\ Truthy(ShipmentCountry("Origin Country")) /\ Truthy(ShipmentCountry("Destination Country"))
     /\ KnownCountry(ShipmentCountry("Origin Country"), unique_rc_origins, origin_code_to_country)
     /\ KnownCountry(ShipmentCountry("Destination Country"), unique_rc_destinations, dest_code_to_country)) =>
        IF PairInSomeLane
        THEN PassedPrecheck
        ELSE /\ stages[1] = <<"precheck">>
             /\ comment[1] = <<"Origin-Destination country combination is missing">>

IsItemLine(line) == StartsWith(line, " ")

NoMatchBlock(lines) == \A i \in 1..Len(lines) : ~IsMatchHeader(lines[i]) /\ ~IsItemLine(lines[i])

C8_TooManyFieldsOnly ==
    (pc = "done" /\ "summary" \in Range(stages[1])) =>
        IF \E i \in 1..Len(best_matching_rate_card_rows) : Len(best_matching_rate_card_rows[i].discrepancies) > 5
        THEN comment[1] = <<"Please recheck the shipment details. Too many shipment details to update.">>
        ELSE \A i \in 1..Len(comment[1]) :
                 comment[1][i] # "Please recheck the shipment details. Too many shipment details to update."

(***************************************************************************)
(* Claims about the pattern branch, stated over PatternSpec: pattern_input *)
(* is the pooled discrepancy list, pattern_comments the lines the branch   *)
(* appended.                                                               *)
(***************************************************************************)
PooledColumns == {pattern_input[i].column : i \in 1..Len(pattern_input)}

\* number of pooled discrepancies whose column is in columns
Covered(columns) == Cardinality({i \in 1..Len(pattern_input) : pattern_input[i].column \in columns})

\* the columns holding at least 70% of the pooled discrepancies
Dominant == {c \in PooledColumns : Covered({c}) * 10 >= Len(pattern_input) * 7}

\* the sequences of k distinct columns in order of falling frequency that no
\* column left out outnumbers
RankedPrefixes(k) ==
    {p \in [1..k -> PooledColumns] :
        /\ \A i \in 1..k : \A j \in 1..k : p[i] = p[j] => i = j
        /\ \A i \in 1..(k - 1) : Covered({p[i]}) >= Covered({p[i + 1]})
        /\ \A c \in PooledColumns \ Range(p) : \A i \in 1..k : Covered({c}) <= Covered({p[i]})}

\* the prefixes of at most 3 columns that cover at least 80%
CoveringPrefixes ==
    UNION {{p \in RankedPrefixes(k) : Covered(Range(p)) * 10 >= Len(pattern_input) * 8} :
           k \in 1..(IF Cardinality(PooledColumns) < 3 THEN Cardinality(PooledColumns) ELSE 3)}

SmallestCoveringPrefixes == {p \in CoveringPrefixes : \A q \in CoveringPrefixes : Len(p) <= Len(q)}

Joined(p) == IF Len(p) = 1 THEN p[1]
             ELSE IF Len(p) = 2 THEN p[1] \o ", " \o p[2]
             ELSE p[1] \o ", " \o p[2] \o ", " \o p[3]

AlsoLines == {i \in 1..Len(pattern_comments) : StartsWith(pattern_comments[i], "Also: ")}

LanesLine == "(" \o NatToStr(PatternLanes) \o " possible rate lanes can be applied with this change)"

\* the lines are one pattern line, the "Also" lines and the closing line
\* that counts the lanes
PatternLayout(pattern_line) ==
    /\ Len(pattern_comments) = Cardinality(AlsoLines) + 2
    /\ pattern_comments[1] = pattern_line
    /\ pattern_comments[Len(pattern_comments)] = LanesLine

\* C9: for a non-empty pooled list the summary names (a) the one column
\* when all discrepancies are in it, without "Also" line; else (b) the
\* column with at least 70% of them, with exactly one "Also" line for each
\* other column; else (c) the smallest frequency-ranked prefix of at most 3
\* columns covering at least 80%, without "Also" line; else (d) it is the
\* generic recheck line alone.
C9_PatternCases ==
    (pattern_pc = "done" /\ pattern_input # << >>) =>
        IF Cardinality(PooledColumns) = 1
        THEN /\ \E c \in PooledColumns : PatternLayout(c \o ": Shipment value needs to be changed")
             /\ AlsoLines = {}
        ELSE IF Dominant # {}
        THEN \E c \in Dominant :
                /\ PatternLayout(c \o ": Shipment value needs to be changed")
                /\ Cardinality(AlsoLines) = Cardinality(PooledColumns \ {c})
                /\ \A o \in PooledColumns \ {c} :
                      \E i \in AlsoLines : StartsWith(pattern_comments[i], "Also: " \o o \o ": ")
        ELSE IF CoveringPrefixes # {}
        THEN /\ \E p \in SmallestCoveringPrefixes :
                   PatternLayout(Joined(p) \o ": Shipment values need to be changed")
             /\ AlsoLines = {}
        ELSE pattern_comments = <<"Please recheck the shipment details">>

\* C9 witness: four columns, none with 70%, the two most frequent below 80%
\* and the three most frequent reported jointly.
C9_Witness ==
    /\ pattern_pc = "done"
    /\ Cardinality(PooledColumns) = 4
    /\ Dominant = {}
    /\ \E p \in SmallestCoveringPrefixes :
          Len(p) = 3 /\ pattern_comments[1] = Joined(p) \o ": Shipment values need to be changed"

\* a column holds at least 70% but not all of the pooled discrepancies
DominantNotAll == Dominant # {} /\ Cardinality(PooledColumns) > 1

\* the first pooled discrepancy of each column but the dominant one, in the
\* order the columns first appear
FirstOfMinorities ==
    SelectSeq(pattern_input,
              LAMBDA d : d.column \notin Dominant
                         /\ d = pattern_input[CHOOSE i \in 1..Len(pattern_input) :
                                                 /\ pattern_input[i].column = d.column
                                                 /\ \A j \in 1..(i - 1) : pattern_input[j].column # d.column])

\* C10 as stated: with a column holding at least 70% but less than 100%,
\* the diagnosis names that column and has no "Also" line.
C10_NoAlsoLine ==
    (pattern_pc = "done" /\ DominantNotAll) =>
        /\ \E c \in Dominant : pattern_comments[1] = c \o ": Shipment value needs to be changed"
        /\ AlsoLines = {}

\* C10: with a column holding at least 70% but less than 100%, the pattern
\* line names exactly that column, and it is followed by exactly one "Also"
\* line for each minority column, showing the shipment value and the target
\* of that column's first pooled discrepancy, and by the lanes line.
C10_DominantWithAlso ==
    (pattern_pc = "done" /\ DominantNotAll) =>
        \E c \in Dominant :
            pattern_comments =
                <<c \o ": Shipment value needs to be changed">>
                \o [i \in 1..Len(FirstOfMinorities) |->
                       "Also: " \o FirstOfMinorities[i].column \o ": '" \o FirstOfMinorities[i].etofs_value
                           \o "' → '" \o FirstOfMinorities[i].rate_card_value \o "'"]
                \o <<LanesLine>>

\* C10 witness: 10 pooled discrepancies, 7 in one column and the other 3
\* spread over 2 columns.
C10_Witness ==
    /\ pattern_pc = "done"
    /\ Len(pattern_input) = 10
    /\ Cardinality(PooledColumns) = 3
    /\ \E c \in PooledColumns : Covered({c}) = 7

\* normalize_value has returned a string the model computes exactly
NormReturned == norm_pc = "done" /\ norm_result \notin {None, OverflowError, Inexact}

\* C14: whenever normalize_value returns a non-null result for an input,
\* normalizing that result again returns the same result
C14_Idempotent == NormReturned => norm_again = norm_result

\* C15: normalize_value never raises, and it returns the canonical null
\* for a missing value, for the empty or blank string and for the strings
\* 'nan' and 'null'
C15_TotalAndNullCanonical ==
    norm_pc = "done" =>
        /\ norm_result # OverflowError
        /\ (norm_value = None \/ Strip(norm_value) \in {"", "nan", "null"}) => norm_result = None

\* the reference of the claim: coercion is skipped iff the trimmed string
\* starts with '0', is longer than one character and is all digits
ReferenceNormalize(value) ==
    IF StartsWith(Strip(value), "0") /\ Len(Strip(value)) > 1 /\ IsDigit(Strip(value))
    THEN Cleaned(Strip(value))
    ELSE Cleaned(numeric_coercion(Strip(value)))

\* C16: for every non-null input normalize_value equals the reference:
\* numeric coercion skipped iff the trimmed string starts with '0', has
\* length > 1 and is all digits, otherwise an integral number rendered as
\* its integer string and a non-integral one as its float string, then
\* lower-cased with spaces and underscores removed
C16_EqualsReference ==
    (norm_value # None /\ NormReturned) => norm_result = ReferenceNormalize(norm_value)

\* the lane value is null or empty, or differs from the rule's value token
\* when both are trimmed and lower-cased
LaneValueDiffers ==
    \/ cond_rate_card_value = None
    \/ Lower(Strip(cond_rate_card_value)) # Lower(Strip(cond_token))

\* C12: a rule text '<ValueToken>: <logic>', with or without a leading
\* ordinal, evaluates to false for every shipment value whenever the lane
\* value differs case-insensitively from ValueToken, a null or empty lane
\* value included; only a lane value equal to the token has it evaluated
C12_ConditionScoping == (cond_pc = "done" /\ LaneValueDiffers) => cond_result = FALSE

\* the shared columns whose name contains 'post'
PostalIndices == {i \in 1..Len(common_columns_normalized) : Contains(common_columns_normalized[i], "post")}

\* the normalized value of the shipment in shared column i
ShipmentCell(i) == Normalized(df_etofs[1][common_etofs_cols_original[i]])

\* the normalized value of lane k in shared column i
LaneCell(k, i) == Normalized(df_filtered_rate_card[k][common_rate_card_cols_original[i]])

\* shared column i is a postal column, both values are there and the
\* shipment value starts with the value of lane k
PrefixMatch(k, i) ==
    /\ i \in PostalIndices
    /\ Truthy(ShipmentCell(i)) /\ Truthy(LaneCell(k, i))
    /\ StartsWith(ShipmentCell(i), LaneCell(k, i))

\* the score of lane k when a postal column with both values there counts
\* iff the prefix test holds and every other column iff the values are equal
PrefixScore(k) ==
    Cardinality({i \in 1..Len(common_columns_normalized) :
                    IF i \in PostalIndices /\ Truthy(ShipmentCell(i)) /\ Truthy(LaneCell(k, i))
                    THEN StartsWith(ShipmentCell(i), LaneCell(k, i))
                    ELSE ShipmentCell(i) = LaneCell(k, i)})

\* C17: a shared column whose name contains 'post', with both normalized
\* values there, counts toward a lane's score iff the shipment value starts
\* with the lane value, so the candidates are the lanes of maximal score
\* under that count; and a candidate has no discrepancy for a postal column
\* whose prefix test holds
C17_PostalPrefix ==
    /\ (pc = "date" /\ \E k \in Lanes : PrefixScore(k) > 0) =>
           Range(CandidateLanes) = {k \in Lanes : \A j \in Lanes : PrefixScore(j) <= PrefixScore(k)}
    /\ pc = "summary" =>
           \A n \in 1..Len(best_matching_rate_card_rows) : \A i \in PostalIndices :
               PrefixMatch(CandidateLanes[n], i) =>
                   \A d \in 1..Len(best_matching_rate_card_rows[n].discrepancies) :
                       best_matching_rate_card_rows[n].discrepancies[d].column # common_etofs_cols_original[i]

\* C17 witness: a candidate whose postal value is a proper prefix of the
\* shipment's (lane '194', shipment '19454') is kept without a discrepancy
\* for that column, while a lane whose postal value is no prefix of the
\* shipment's scored lower and is no candidate
C17_Witness ==
    /\ pc = "summary"
    /\ \E n \in 1..Len(best_matching_rate_card_rows) : \E i \in PostalIndices :
          /\ PrefixMatch(CandidateLanes[n], i)
          /\ ShipmentCell(i) # LaneCell(CandidateLanes[n], i)
          /\ best_matching_rate_card_rows[n].discrepancies # << >>
    /\ \E j \in Lanes : /\ j \notin Range(CandidateLanes)
                         /\ \A i \in PostalIndices : ~PrefixMatch(j, i)

\* the rule is named by the cell of the business rule column
NamedByCell == geo_value # None /\ Lower(Strip(geo_value)) \notin {"", "nan", "none"}

\* the rules the call is about: the rule the cell names, or, for an empty
\* cell, the rules in force for the column
RulesMeant ==
    IF NamedByCell THEN {FindRuleName(geo_lookup, Strip(geo_value))} \ {None}
    ELSE Range(RulesForColumn(geo_lookup.column_to_rules, geo_col))

\* the shipment's country and postal code on the side of the column (the
\* rows of the model have the same on both sides)
RowCountry == geo_row["Origin Country"]

RowPostal == IF "Origin Postal Code" \in DOMAIN geo_row THEN geo_row["Origin Postal Code"] ELSE None

\* the shipment's country is in the country set of rule r
InCountrySet(r) ==
    /\ RowCountry # None
    /\ \E i \in 1..Len(Split(DictGet(geo_lookup.rule_to_country, r, ""), ",")) :
          Upper(Strip(RowCountry)) = Upper(Strip(Split(DictGet(geo_lookup.rule_to_country, r, ""), ",")[i]))

\* the shipment has a postal code and it starts with a prefix of rule r
HasRulePrefix(r) ==
    /\ RowPostal # None
    /\ \E i \in 1..Len(DictGet(geo_lookup.rule_to_postal_codes, r, << >>)) :
          StartsWith(Lower(Strip(RowPostal)), Lower(Strip(DictGet(geo_lookup.rule_to_postal_codes, r, << >>)[i])))

\* C13: a postalZone rule that defines postal prefixes resolves as matched
\* only if the shipment's country is in the rule's country set and the
\* shipment's postal code starts with one of its prefixes (a missing postal
\* code never matches); a countryRegion rule resolves as matched iff the
\* country is in the rule's country set; for a rule named by the cell and
\* for a rule found by search
C13_GeoRuleKinds ==
    (geo_pc = "done" /\ geo_lookup.given) =>
        IF IsCountryRegionCol(geo_col)
        THEN geo_result[1] <=> \E r \in RulesMeant : InCountrySet(r)
        ELSE geo_result[1] =>
                 \E r \in RulesMeant :
                     /\ InCountrySet(r)
                     /\ DictGet(geo_lookup.rule_to_postal_codes, r, << >>) # << >> => HasRulePrefix(r)


\* C19: no shipment's outcome is thrown: the loop never raises, and when it
\* has returned every shipment of the batch has its comment
C19_NeverThrown ==
    /\ pc # "raised"
    /\ pc = "done" => \A i \in 1..Len(df_etofs) : comment[i] # NoComment

\* the shipment the loop has just finished
FinishedRow == index_etofs - 1

\* C11: a shipment that has passed the geo precheck and kept at least one
\* candidate, whose candidates all have zero discrepancies and whose comment
\* reports no business-rule failure, has exactly the comment
\* 'No discrepancies found', whatever the number of tying lanes and whether
\* or not a business rule has validated columns
C11_CleanOutcome ==
    (/\ pc \in {"precheck", "done"}
     /\ FinishedRow \in 1..Len(df_etofs)
     /\ "summary" \in Range(stages[FinishedRow])
     /\ best_matching_rate_card_rows # << >>
     /\ \A m \in Range(best_matching_rate_card_rows) : m.discrepancies = << >>
     /\ \A line \in Range(comment[FinishedRow]) : ~StartsWith(line, "[Business Rule Failed]"))
    => comment[FinishedRow] = <<"No discrepancies found">>

\* C20: when the rate table has no rows or the two tables share no column,
\* the batch is aborted: it never completes and no shipment gets a comment
C20_FatalInput ==
    (df_filtered_rate_card = << >> \/ common_columns = << >>)
    => /\ pc # "done"
       /\ \A i \in 1..Len(df_etofs) : comment[i] = NoComment

\* has the loop written the result of shipment i: it has gone past it, or
\* the batch has ended
Evaluated(i) == i < index_etofs \/ pc \in {"done", "raised", "aborted"}

\* C18: the comment and the Rate Card value of a shipment depend on its
\* record only and are stored at its position: two equal records of a batch
\* have equal comments and equal Rate Card values, whatever has been
\* evaluated before and between them
C18_StatelessPerRow ==
    \A i \in 1..Len(df_etofs) : \A j \in 1..Len(df_etofs) :
        (df_etofs[i] = df_etofs[j] /\ Evaluated(i) /\ Evaluated(j))
        => (comment[i] = comment[j] /\ rate_card_out[i] = rate_card_out[j])

\* the names of the rules of the lookup
RuleNames == Range(DictKeys(geo_lookup.rule_to_country)) \cup Range(DictKeys(geo_lookup.rule_to_postal_codes))

\* the rules whose name equals the cell, trimmed and case-insensitively
ExactlyNamed == {n \in RuleNames : Lower(Strip(n)) = Lower(Strip(geo_value))}

\* C30: when the business-rule cell is not null and a rule has exactly the
\* name in the cell (trimmed, case-insensitive), the result of the resolver
\* is the validation of the shipment against that rule, never against a rule
\* whose name only contains the cell value, whatever the order of the rules
C30_NamedRuleResolution ==
    (geo_pc = "done" /\ geo_lookup.given /\ NamedByCell /\ ExactlyNamed # {}) =>
        \E n \in ExactlyNamed :
            geo_result = ValidateRuleValue(geo_row, geo_col, Strip(geo_value), n, geo_lookup)

\* the rule's value token is the lane value (compared lower-cased)
ScopedToLane ==
    /\ cond_rate_card_value # None
    /\ cond_rate_card_value # ""
    /\ Lower(cond_token) = Lower(cond_rate_card_value)

\* the shipment value is null, blank, or the text of a null cell
BlankShipmentValue ==
    \/ cond_resmed_value = None
    \/ Strip(cond_resmed_value) = ""
    \/ Lower(cond_resmed_value) \in {"nan", "none", "null"}

\* C24: a rule scoped to the lane value whose logic contains 'is empty' is
\* true exactly when the shipment value is null or blank; a non-blank value
\* is never accepted through a later phrase of the same rule
C24_IsEmptyFirst ==
    (cond_pc = "done" /\ ScopedToLane /\ Contains(Lower(cond_text), "is empty")) =>
        (cond_result <=> BlankShipmentValue)

\* the tokens listed after 'does not equal' or 'does not equal to'
ForbiddenTokens ==
    LET condition_lower == Lower(cond_text)
        list == IF Contains(condition_lower, "does not equal to ")
                THEN OperandList(condition_lower, "does not equal to ")
                ELSE OperandList(condition_lower, "does not equal")
    IN  {list[i] : i \in 1..Len(list)}

\* C25: a 'does not equal' / 'does not equal to' rule scoped to the lane
\* value is true for a blank shipment value, and for a non-blank one exactly
\* when the lower-cased value equals none of the listed tokens
C25_DoesNotEqual ==
    (cond_pc = "done" /\ ScopedToLane /\ Contains(Lower(cond_text), "does not equal")) =>
        (cond_result <=> (BlankShipmentValue \/ Lower(Strip(cond_resmed_value)) \notin ForbiddenTokens))

\* the shipment table or the rate table has no origin country column
OriginColumnLacking ==
    \/ FirstPresent(EtofOriginVariations, DOMAIN df_etofs[1]) = None
    \/ rc_origin_col(rate_card_columns) = None

\* the shipment table or the rate table has no destination country column
DestinationColumnLacking ==
    \/ FirstPresent(EtofDestVariations, DOMAIN df_etofs[1]) = None
    \/ rc_dest_col(rate_card_columns) = None

CombinationLines == {"Origin-Destination are missing", "Origin-Destination country combination is missing"}

\* the precheck of the shipment has run and its pre-step has not raised
PrecheckDone == "precheck" \in Range(stages[1]) /\ pc # "precheck" /\ pc # "raised"

\* the shipment has left the precheck for lane scoring
ProceedsToScoring == pc = "score" \/ PassedPrecheck

\* C21: when the shipment table or the rate table lacks the country column
\* of a side, the comment of the shipment has no precheck line about that
\* side and no combination line, and the shipment goes on to lane scoring
\* unless the precheck reports the other side
C21_MissingGeoColumns ==
    PrecheckDone =>
        /\ OriginColumnLacking =>
              /\ \A i \in 1..Len(comment[1]) :
                    ~StartsWith(comment[1][i], "Origin country") /\ comment[1][i] \notin CombinationLines
              /\ ProceedsToScoring \/ \E i \in 1..Len(comment[1]) : StartsWith(comment[1][i], "Destination country")
        /\ DestinationColumnLacking =>
              /\ \A i \in 1..Len(comment[1]) :
                    ~StartsWith(comment[1][i], "Destination country") /\ comment[1][i] \notin CombinationLines
              /\ ProceedsToScoring \/ \E i \in 1..Len(comment[1]) : StartsWith(comment[1][i], "Origin country")

\* C22: when the rate table has a carrier agreement column, the Rate Card
\* field of an evaluated shipment is the carrier agreement cell of the first
\* candidate that is left after the date filter, and null when no candidate
\* is left
C22_PassthroughValue ==
    (pc = "done" /\ Len(df_etofs) = 1 /\ carrier_agreement_col(rate_card_columns) # None) =>
        rate_card_out[1] = FirstCarrierAgreement(best_matching_rate_card_rows)

\* the shared columns of the two tables, by their shipment-table names
SharedColumns == Range(common_etofs_cols_original)

\* the rate-table name of a shared column
RateCardColumnOf(c) ==
    common_rate_card_cols_original[CHOOSE i \in 1..Len(common_rate_card_cols_original) : common_etofs_cols_original[i] = c]

\* a condition rule of column c whose value token is the lane value and
\* which the shipment value satisfies
RuleSatisfied(c, etofs_val, rate_card_val) ==
    LET key == ConditionKey(conditions_dict, c)
    IN  /\ key # None
        /\ Truthy(rate_card_val)
        /\ \E i \in 1..Len(conditions_dict[key]) :
              /\ Contains(conditions_dict[key][i], ":")
              /\ Lower(Strip(BeforeFirst(StripOrdinal(Strip(conditions_dict[key][i])), ":"))) = Lower(rate_card_val)
              /\ value_satisfies_condition(etofs_val, rate_card_val, conditions_dict[key][i])

\* the columns the claim has recorded for a candidate
ColumnsToRecord(row, lane) ==
    {c \in SharedColumns :
        LET etofs_val == row[c]
            rate_card_val == lane[RateCardColumnOf(c)]
        IN  /\ normalize_column_name(c) \notin business_rules.validated
            /\ Normalized(etofs_val) # Normalized(rate_card_val)
            /\ ~(/\ Contains(Lower(c), "post")
                 /\ Truthy(Normalized(etofs_val)) /\ Truthy(Normalized(rate_card_val))
                 /\ StartsWith(Normalized(etofs_val), Normalized(rate_card_val)))
            /\ ~RuleSatisfied(c, etofs_val, rate_card_val)
            /\ ~(/\ \E bc \in BusinessRuleColumns : normalize_column_name(bc) = normalize_column_name(c)
                 /\ (etofs_val = None \/ Lower(Strip(etofs_val)) \in {"", "nan", "none"}))}

\* the discrepancies of the candidates have been computed
DiscrepanciesComputed == pc = "summary" /\ Len(df_etofs) = 1

\* C23: the discrepancy list of every surviving candidate holds exactly the
\* shared columns that are not validated by a business rule, whose
\* normalized values differ, that are not a postal column satisfied by
\* prefix, for which no condition rule of the lane value is satisfied, and
\* that are not a business-rule column with a null shipment value; each of
\* them once
C23_DiscrepancyRecording ==
    DiscrepanciesComputed =>
        \A k \in 1..Len(best_matching_rate_card_rows) :
            LET discs == best_matching_rate_card_rows[k].discrepancies
            IN  /\ {discs[j].column : j \in 1..Len(discs)}
                      = ColumnsToRecord(df_etofs[1], best_matching_rate_card_rows[k].rate_card_row)
                /\ \A i, j \in 1..Len(discs) : discs[i].column = discs[j].column => i = j

\* a candidate with a recorded column and with a differing column that a
\* satisfied condition rule keeps off its list
C23_Witness ==
    /\ DiscrepanciesComputed
    /\ \E k \in 1..Len(best_matching_rate_card_rows) :
          LET lane == best_matching_rate_card_rows[k].rate_card_row
          IN  /\ best_matching_rate_card_rows[k].discrepancies # << >>
              /\ \E c \in SharedColumns :
                    /\ Normalized(df_etofs[1][c]) # Normalized(lane[RateCardColumnOf(c)])
                    /\ RuleSatisfied(c, df_etofs[1][c], lane[RateCardColumnOf(c)])

\* the first condition rule of column c whose value token is exactly the
\* lane value, None if the column has none
RuleScopedTo(c, rate_card_val) ==
    LET key == ConditionKey(conditions_dict, c)
        lines == IF key = None \/ ~Truthy(rate_card_val) THEN << >>
                 ELSE SelectSeq(conditions_dict[key],
                                LAMBDA line : /\ Contains(line, ":")
                                              /\ Lower(Strip(BeforeFirst(StripOrdinal(Strip(line)), ":")))
                                                     = Lower(rate_card_val))
    IN  IF lines = << >> THEN None ELSE lines[1]

\* the code list of a rule phrased 'equals' or 'equal to', None for a rule
\* phrased otherwise
CodeList(rule) ==
    LET logic == Strip(AfterFirst(StripOrdinal(Strip(rule)), ":"))
    IN  IF StartsWith(Lower(logic), "equal to ") THEN Strip(SubSeq(logic, 10, Len(logic)))
        ELSE IF StartsWith(Lower(logic), "equals ") THEN Strip(SubSeq(logic, 8, Len(logic)))
        ELSE None

\* the value the line of a discrepancy has to show
ActionableTarget(disc) ==
    LET rule == RuleScopedTo(disc.column, disc.rate_card_value)
    IN  IF rule # None /\ CodeList(rule) # None THEN CodeList(rule) ELSE Str(disc.rate_card_value)

\* the comment of the shipment enumerates the discrepancies of its matches
Enumerated ==
    /\ pc = "done" /\ Len(df_etofs) = 1
    /\ \E i \in 1..Len(comment[1]) : StartsWith(comment[1][i], "Discrepancies for Match")

\* C26: an enumerated discrepancy line that is not a date line shows the
\* code list of the condition rule scoped to exactly its lane value when
\* that rule is phrased 'equals' or 'equal to', the raw lane value otherwise
C26_ActionableTarget ==
    Enumerated =>
        {comment[1][i] : i \in {j \in 1..Len(comment[1]) : Contains(comment[1][j], "needs to be changed to '")}}
            = UNION {{" " \o d.column \o ": Shipment value '" \o Str(d.etofs_value) \o "' needs to be changed to '"
                          \o ActionableTarget(d) \o "'" :
                      d \in {x \in Range(best_matching_rate_card_rows[k].discrepancies) : x.type # "date_range"}} :
                     k \in 1..Len(best_matching_rate_card_rows)}

\* the failure lines of the failed business rule columns of the shipment:
\* line, side and rule type
FailureLines ==
    UNION {{[line |-> "[Business Rule Failed] " \o business_rules.failed[i][2][j],
             side |-> IF Contains(business_rules.failed[i][1], "origin") THEN "origin" ELSE "destination",
             rule_type |-> RuleTypeOf(business_rules.failed[i][1]),
             postal_mismatch |-> Contains(business_rules.failed[i][2][j], "failed: Postal code")] :
            j \in 1..Len(business_rules.failed[i][2])} : i \in 1..Len(business_rules.failed)}

\* a line of the comment that is no business rule line and names the
\* country or the postal code of the side
GeoLineCovers(side) ==
    \E i \in 1..Len(comment[1]) :
        /\ ~StartsWith(comment[1][i], "[Business Rule")
        /\ Contains(Lower(comment[1][i]), side \o " country") \/ Contains(Lower(comment[1][i]), side \o " postal")

\* the shipment has been through the discrepancy computation and the summary
Summarized == pc = "done" /\ Len(df_etofs) = 1 /\ "summary" \in Range(stages[1])

\* C27: the failure line of a failed countryRegion rule is in the comment
\* exactly when no other geo discrepancy line of the comment covers its
\* side, and the postal-mismatch failure line of a postalZone rule is always
\* in the comment
C27_GeoFailureSuppression ==
    Summarized =>
        \A f \in FailureLines :
            /\ f.rule_type = "country_region" =>
                  ((f.line \in Range(comment[1])) <=> ~GeoLineCovers(f.side))
            /\ (f.rule_type = "postal_code_zone" /\ f.postal_mismatch) => f.line \in Range(comment[1])

NoMatchLine == "No matching rate card entries found"

IsPrecheckLine(line) ==
    StartsWith(line, "Origin country") \/ StartsWith(line, "Destination country") \/ StartsWith(line, "Origin-Destination")

IsAllDatesInvalidLine(line) ==
    StartsWith(line, "Date '") /\ Contains(line, "is outside valid date range for all matching rate card entries")

\* the comment of row i is the one of the terminal outcome that the stages
\* of the row end with, and of no other
OneDiagnosis(i) ==
    \/ /\ stages[i] = <<"precheck">>
       /\ \A j \in 1..Len(comment[i]) : IsPrecheckLine(comment[i][j])
    \/ /\ stages[i] = <<"precheck", "score">>
       /\ comment[i] = <<NoMatchLine>>
    \/ /\ stages[i] = <<"precheck", "score", "date">>
       /\ Len(comment[i]) = 1 /\ IsAllDatesInvalidLine(comment[i][1])
    \/ /\ stages[i] = <<"precheck", "score", "date", "discrepancies", "summary">>
       /\ \A j \in 1..Len(comment[i]) :
             ~IsPrecheckLine(comment[i][j]) /\ comment[i][j] # NoMatchLine /\ ~IsAllDatesInvalidLine(comment[i][j])

\* match_shipments_with_rate_card has returned
Returned == pc = "done"

IsPatternLine(line) ==
    \/ line = RecheckComment
    \/ Contains(line, ": Shipment value needs to be changed") /\ ~Contains(line, "needs to be changed to")
    \/ Contains(line, ": Shipment values need to be changed")
    \/ StartsWith(line, "Also: ")
    \/ Contains(line, "possible rate lanes can be applied with this change)")

\* the comment of the shipment comes from the pattern summarization
PatternSummarized == Summarized /\ \E i \in 1..Len(comment[1]) : IsPatternLine(comment[1][i])

\* C29: a comment made by the pattern summarization (and every
\* '(N possible rate lanes can be applied with this change)' line) belongs
\* to a shipment that has more than 4 candidates left after the date filter,
\* and a shipment with at most 4 candidates left whose candidates have
\* discrepancies gets the per-match enumeration
C29_TieFlagAfterDateFilter ==
    Summarized =>
        /\ PatternSummarized => Len(best_matching_rate_card_rows) > TooManyMatchesThreshold
        /\ (/\ Len(best_matching_rate_card_rows) <= TooManyMatchesThreshold
            /\ \E k \in 1..Len(best_matching_rate_card_rows) : best_matching_rate_card_rows[k].discrepancies # << >>
            /\ \A k \in 1..Len(best_matching_rate_card_rows) :
                  Len(best_matching_rate_card_rows[k].discrepancies) <= TooManyFieldsThreshold)
              => \E i \in 1..Len(comment[1]) : IsMatchHeader(comment[1][i])

=============================================================================
